---- MODULE Spec2Model ----
(***************************************************************************)
(* Fresh Market Watch: the detection-and-enrichment pipeline.              *)
(*   - Cache (services/cache.ts): TTL store and the cache key              *)
(*   - detectNewPairs (services/detector.ts): scan, dedup, enrich, cache   *)
(*   - enrichPairData, getPairLiquidity, getTokenInfo, getTopHolders,      *)
(*     formatInitialLiquidity (services/enrichment.ts)                     *)
(* Address strings (factories, pools, tokens, holders) are naturals; the   *)
(* order of the naturals is the lexicographic order of the strings.        *)
(***************************************************************************)
EXTENDS Integers, Sequences, FiniteSets, TLC

VARIABLES
  \* Cache.generateKey called on two caller arrays
  kChain, kFrom, kTo, kIn, kArr, kKey, kPc,
  \* deduplicatePairs and the tail of detectNewPairs
  dAllPairs, dUnique, dEnriched, dResponse, dPc,
  \* whether the holder queries of each enriched pool were answered
  dHoldersOk,
  \* getTopHolders
  hLimit, hLogs, balances, topHolders, hPc,
  \* enrichPairData on one pool: getPairLiquidity, getTokenInfo, getTopHolders,
  \* formatInitialLiquidity
  mints, ePair, v2Logs, v3Logs, mintDecodes, liquidity, tokenInfos, eHolders, eOut, ePc,
  \* what the node answered to the three metadata reads of each token
  eReads,
  \* the process: Date.now(), the chain head the node reports, Cache.store;
  \* env is the environment of a run: the requests callers send (menu) and the
  \* faults the node can show (faults)
  env, now, head, store,
  \* detectNewPairs, per request: the options object, the locals, the RPC
  \* calls issued so far, what the request returned or threw
  pc, options, currentBlock, fromBlock, cacheKey, cachedResult, fIdx, scanned,
  allPairs, uniquePairs, enrichedPairs, rpcCalls, ret,
  \* the time each request was sent
  calledAt, supplied,
  \* one call of estimateBlocksForTimeWindow
  xChain, xWindow, xBlocks, xPc,
  \* the list entrypoint serving one request: the version of agent.ts, the input
  \* received, the handler's position and what it returned or threw
  lVersion, lInput, lResponse, lPc,
  \* the scan window of one call of getTopHolders: the pool's creation block,
  \* the head the node reports, the first block queried, the blocks of the
  \* Transfer logs returned
  wCreation, wHead, wFrom, wLogs, wPc,
  \* the last call made on the cache by a direct client of it: the method, the
  \* key, and the keys whose entries the call removed
  cCall

keyVars == <<kChain, kFrom, kTo, kIn, kArr, kKey, kPc>>
dedVars == <<dAllPairs, dUnique, dEnriched, dResponse, dPc, dHoldersOk>>
holdVars == <<hLimit, hLogs, balances, topHolders, hPc>>
enrVars == <<mints, ePair, v2Logs, v3Logs, mintDecodes, liquidity, tokenInfos, eHolders, eOut, ePc,
            eReads>>
procVars == <<env, now, head, store>>
reqVars == <<pc, options, currentBlock, fromBlock, cacheKey, cachedResult, fIdx, scanned,
             allPairs, uniquePairs, enrichedPairs, rpcCalls, ret, calledAt, supplied>>
pipeVars == <<procVars, reqVars>>
estVars == <<xChain, xWindow, xBlocks, xPc>>
listVars == <<lVersion, lInput, lResponse, lPc>>
winVars == <<wCreation, wHead, wFrom, wLogs, wPc>>
cacheVars == <<cCall>>
vars == <<keyVars, dedVars, holdVars, enrVars, pipeVars, estVars, listVars, winVars,
         cacheVars>>

\* what a step of one component leaves alone
notKey == <<cacheVars, winVars, dedVars, holdVars, enrVars, pipeVars, estVars, listVars>>
notDed == <<cacheVars, winVars, keyVars, holdVars, enrVars, pipeVars, estVars, listVars>>
notHold == <<cacheVars, winVars, keyVars, dedVars, enrVars, pipeVars, estVars, listVars>>
notEnr == <<cacheVars, winVars, keyVars, dedVars, holdVars, pipeVars, estVars, listVars>>
notEst == <<keyVars, dedVars, holdVars, enrVars, pipeVars, listVars, winVars, cacheVars>>
notWin == <<keyVars, dedVars, holdVars, enrVars, pipeVars, estVars, listVars, cacheVars>>
\* what a step of detectNewPairs leaves alone, but for the list entrypoint
notCore == <<keyVars, dedVars, holdVars, enrVars, estVars, winVars, cacheVars>>
notPipe == <<notCore, listVars>>
\* what a call on the cache by a direct client leaves alone
notCache == <<env, head, reqVars, keyVars, dedVars, holdVars, enrVars, estVars, winVars,
              listVars>>

-----------------------------------------------------------------------------
(* Bounds of the model *)

MaxFactories == 3
MaxPairs == 4
MaxTransfers == 2
MaxMints == 3
MaxEnrichMints == 1
MaxTicks == 3
MaxNewBlocks == 1
MaxWindowChars == 3

-----------------------------------------------------------------------------
(* Generic helpers *)

SeqsUpTo(S, n) == UNION {[1..k -> S] : k \in 0..n}

Range(s) == {s[i] : i \in 1..Len(s)}

Count(s, x) == Cardinality({i \in 1..Len(s) : s[i] = x})

IsPermutation(s, t) ==
  /\ Len(s) = Len(t)
  /\ \A x \in Range(s) \cup Range(t) : Count(s, x) = Count(t, x)

-----------------------------------------------------------------------------
(* Cache.generateKey *)

\* Array.prototype.sort() with the default comparator: ascending, stable
RECURSIVE InsertSorted(_, _)
InsertSorted(x, s) ==
  IF s = <<>> THEN <<x>>
  ELSE IF x < Head(s) THEN <<x>> \o s
  ELSE <<Head(s)>> \o InsertSorted(x, Tail(s))

RECURSIVE SortArray(_)
SortArray(s) ==
  IF s = <<>> THEN <<>>
  ELSE InsertSorted(s[Len(s)], SortArray(SubSeq(s, 1, Len(s) - 1)))

\* a plausible slip: the array is joined as the caller passed it
UnsortedFactories(factories) == factories

\* factories.sort(): the array the caller passed, as generateKey leaves it
SortedFactories(factories) == SortArray(factories)

\* `pairs:${chain}:${factories.sort().join(",")}:${fromBlock}:${toBlock}`
\* the string is the tuple of its parts
generateKey(chain, factories, from, to) ==
  <<"pairs", chain, SortedFactories(factories), from, to>>

NoKey == <<>>

KeyChains == {"base", "ethereum"}
KeyFactories == 1..3
KeyFromBlocks == {100, 130}
KeyToBlocks == {130}

KeyIdle ==
  /\ kChain = "" /\ kFrom = 0 /\ kTo = 0
  /\ kIn = <<>> /\ kArr = <<>> /\ kKey = <<>> /\ kPc = <<>>

KeyInit ==
  /\ kChain \in KeyChains
  /\ kFrom \in KeyFromBlocks
  /\ kTo \in KeyToBlocks
  /\ kIn \in [1..2 -> SeqsUpTo(KeyFactories, MaxFactories)]
  /\ kArr = kIn
  /\ kKey = [i \in 1..2 |-> NoKey]
  /\ kPc = [i \in 1..2 |-> "ready"]

\* one call Cache.generateKey(chain, factories, fromBlock, toBlock): the key is
\* returned and the caller's array is left sorted
GenerateKey(i) ==
  /\ i \in DOMAIN kPc
  /\ kPc[i] = "ready"
  /\ kKey' = [kKey EXCEPT ![i] = generateKey(kChain, kArr[i], kFrom, kTo)]
  /\ kArr' = [kArr EXCEPT ![i] = SortedFactories(kArr[i])]
  /\ kPc' = [kPc EXCEPT ![i] = "done"]
  /\ UNCHANGED <<kChain, kFrom, kTo, kIn, notKey>>

-----------------------------------------------------------------------------
(* PairInfo, deduplicatePairs *)

PoolAddrs == 1..3

\* a PairInfo as parsePairCreatedLog / parsePoolCreatedLog return it
PairInfo(pair, token0, token1, blockNumber, factory, poolType) ==
  [pair_address |-> pair, tokens |-> <<token0, token1>>,
   block_number |-> blockNumber, factory |-> factory, pool_type |-> poolType]

\* a plausible slip: every record is kept
KeepAllPairs(pairs) == pairs

\* a plausible slip: the last occurrence of an address wins
RECURSIVE DedupLastWins(_)
DedupLastWins(pairs) ==
  IF pairs = <<>> THEN <<>>
  ELSE LET rest == DedupLastWins(Tail(pairs))
       IN IF \E i \in 1..Len(rest) : rest[i].pair_address = Head(pairs).pair_address
          THEN rest
          ELSE <<Head(pairs)>> \o rest

\* the loop of deduplicatePairs: seen is the Set, unique the output array
RECURSIVE DedupLoop(_, _, _)
DedupLoop(pairs, seen, unique) ==
  IF pairs = <<>> THEN unique
  ELSE LET pair == Head(pairs)
       IN IF pair.pair_address \notin seen
          THEN DedupLoop(Tail(pairs), seen \cup {pair.pair_address}, Append(unique, pair))
          ELSE DedupLoop(Tail(pairs), seen, unique)

deduplicatePairs(pairs) == DedupLoop(pairs, {}, <<>>)

-----------------------------------------------------------------------------
(* getTopHolders: replay of the Transfer logs and ranking *)

ZERO_ADDRESS == 0
HolderAddrs == 1..3
TransferValues == {40, 100}
TOP_HOLDERS_LIMIT == 5

TransferLog(from, to, value) == [from |-> from, to |-> to, value |-> value]

TransferLogs ==
  {TransferLog(f, t, v) : f \in {ZERO_ADDRESS} \cup HolderAddrs,
                          t \in {ZERO_ADDRESS} \cup HolderAddrs,
                          v \in TransferValues}

\* the Map balances: its entries in insertion order
MapHas(m, a) == \E i \in 1..Len(m) : m[i].address = a

\* balances.get(a) || 0n
MapGet(m, a) ==
  IF MapHas(m, a) THEN m[CHOOSE i \in 1..Len(m) : m[i].address = a].balance ELSE 0

\* balances.set(a, b): an existing key keeps its place, a new key goes last
MapSet(m, a, b) ==
  IF MapHas(m, a)
  THEN [i \in 1..Len(m) |-> IF m[i].address = a THEN [address |-> a, balance |-> b] ELSE m[i]]
  ELSE Append(m, [address |-> a, balance |-> b])

\* a plausible slip: the zero address is debited and credited like any other
ReplayWithZero(m, log) ==
  LET m1 == MapSet(m, log.from, MapGet(m, log.from) - log.value)
  IN MapSet(m1, log.to, MapGet(m1, log.to) + log.value)

\* a plausible slip: only the sender is compared with the zero address
ReplayCreditZero(m, log) ==
  LET m1 == IF log.from # ZERO_ADDRESS
            THEN MapSet(m, log.from, MapGet(m, log.from) - log.value)
            ELSE m
  IN MapSet(m1, log.to, MapGet(m1, log.to) + log.value)

\* a plausible slip: both balances are read before either is written
ReplayStaleRead(m, log) ==
  LET m1 == IF log.from # ZERO_ADDRESS
            THEN MapSet(m, log.from, MapGet(m, log.from) - log.value)
            ELSE m
  IN IF log.to # ZERO_ADDRESS
     THEN MapSet(m1, log.to, MapGet(m, log.to) + log.value)
     ELSE m1

\* one iteration of the replay loop
ReplayLog(m, log) ==
  LET m1 == IF log.from # ZERO_ADDRESS
            THEN MapSet(m, log.from, MapGet(m, log.from) - log.value)
            ELSE m
  IN IF log.to # ZERO_ADDRESS
     THEN MapSet(m1, log.to, MapGet(m1, log.to) + log.value)
     ELSE m1

RECURSIVE ReplayFrom(_, _)
ReplayFrom(m, logs) ==
  IF logs = <<>> THEN m ELSE ReplayFrom(ReplayLog(m, Head(logs)), Tail(logs))

ReplayLogs(logs) == ReplayFrom(<<>>, logs)

\* a plausible slip: holders with a zero balance are kept
NonNegativeHolders(m) ==
  LET NonNegative(e) == e.balance >= 0 IN SelectSeq(m, NonNegative)

\* .filter(([_, balance]) => balance > 0n)
PositiveHolders(m) ==
  LET Positive(e) == e.balance > 0 IN SelectSeq(m, Positive)

\* .sort((a, b) => b[1] - a[1] ...): descending by balance, stable
RECURSIVE InsertByBalance(_, _)
InsertByBalance(e, s) ==
  IF s = <<>> THEN <<e>>
  ELSE IF e.balance > Head(s).balance THEN <<e>> \o s
  ELSE <<Head(s)>> \o InsertByBalance(e, Tail(s))

RECURSIVE SortByBalance(_)
SortByBalance(s) ==
  IF s = <<>> THEN <<>>
  ELSE InsertByBalance(s[Len(s)], SortByBalance(SubSeq(s, 1, Len(s) - 1)))

\* a plausible slip: the holders are left in Map order
MapOrder(s) == s

SortHolders(s) == SortByBalance(s)

\* .slice(0, limit), limit >= 0
Slice(s, limit) == SubSeq(s, 1, IF limit < Len(s) THEN limit ELSE Len(s))

\* filter, sort, slice, map to the address
RankHolders(m, limit) ==
  LET sorted == Slice(SortHolders(PositiveHolders(m)), limit)
  IN [i \in 1..Len(sorted) |-> sorted[i].address]

HolderLimits == {1, 2, TOP_HOLDERS_LIMIT}

HoldIdle ==
  /\ hLimit = 0 /\ hLogs = <<>> /\ balances = <<>> /\ topHolders = <<>> /\ hPc = "off"

HoldInit ==
  /\ hLimit \in HolderLimits
  /\ hLogs = <<>> /\ balances = <<>> /\ topHolders = <<>>
  /\ hPc = "getBlockNumber"

\* await client.getBlockNumber(): the head, or the call rejects and the catch
\* returns []
HoldersGetBlockNumber ==
  /\ hPc = "getBlockNumber"
  /\ \/ hPc' = "getLogs" /\ UNCHANGED topHolders
     \/ hPc' = "failed" /\ topHolders' = <<>>
  /\ UNCHANGED <<hLimit, hLogs, balances, notHold>>

\* await client.getLogs(...) and the synchronous rest of getTopHolders: the
\* replay, then filter, sort, slice and map; a log that does not decode throws
\* into the catch, which returns []
HoldersGetLogs ==
  /\ hPc = "getLogs"
  /\ \/ \E logs \in SeqsUpTo(TransferLogs, MaxTransfers) :
          /\ hLogs' = logs
          /\ balances' = ReplayLogs(logs)
          /\ topHolders' = RankHolders(ReplayLogs(logs), hLimit)
          /\ hPc' = "done"
     \/ \E logs \in SeqsUpTo(TransferLogs, MaxTransfers) :
          /\ Len(logs) <= 1
          /\ hLogs' = logs
          /\ balances' = <<>>
          /\ topHolders' = <<>>
          /\ hPc' = "failed"
  /\ UNCHANGED <<hLimit, notHold>>

-----------------------------------------------------------------------------
(* getTopHolders: the scan window *)

\* const maxBlocks = 1000n
maxBlocks == 1000

\* a plausible slip: the older of the two blocks
scanFromOldest(current, from) ==
  IF current - maxBlocks > from THEN from ELSE current - maxBlocks

\* currentBlock - maxBlocks > fromBlock ? currentBlock - maxBlocks : fromBlock
scanFromBlock(current, from) ==
  IF current - maxBlocks > from THEN current - maxBlocks ELSE from

\* the blocks of the Transfer logs of the pool's liquidity token on the chain,
\* in log order
WinTransferBlocks == <<400, 950, 1000, 1999, 2000, 2001, 2500, 3000, 3001, 3600>>
WinCreations == {0, 500, 1000, 1999, 2000, 2001, 2500, 3000}
WinHeads == {500, 1000, 2000, 3000, 3001, 3500, 4000}

WinIdle == wCreation = 0 /\ wHead = 0 /\ wFrom = 0 /\ wLogs = <<>> /\ wPc = "off"

WinInit ==
  wCreation \in WinCreations /\ wHead \in WinHeads /\ wFrom = 0 /\ wLogs = <<>>
    /\ wPc = "getBlockNumber"

\* getTopHolders(client, pairAddress, fromBlock = creation block) up to the
\* logs it replays: the head, the first block of the scan, the Transfer query
HoldersScanWindow ==
  /\ wPc = "getBlockNumber"
  /\ LET scanFrom == scanFromBlock(wHead, wCreation)
         InRange(b) == scanFrom <= b /\ b <= wHead
     IN /\ wFrom' = scanFrom
        /\ wLogs' = SelectSeq(WinTransferBlocks, InRange)
  /\ wPc' = "replay"
  /\ UNCHANGED <<wCreation, wHead, notWin>>

-----------------------------------------------------------------------------
(* getPairLiquidity *)

MINT_SCAN_BLOCKS == 10

\* a Mint log of a pool as the chain holds it; shape is "v2" or "v3"
MintLog(shape, block, amount0, amount1) ==
  [shape |-> shape, block |-> block, amount0 |-> amount0, amount1 |-> amount1]

\* a settled promise of Promise.allSettled
Fulfilled(value) == [status |-> "fulfilled", value |-> value]
Rejected == [status |-> "rejected", value |-> <<>>]
\* a rejected read of a string or a number: value is never read
Failed(unused) == [status |-> "rejected", value |-> unused]
NotCalled == [status |-> "none", value |-> <<>>]

\* client.getLogs({address, event, fromBlock, toBlock}) on a node that answers:
\* the logs of the event in the range, in block and log order
getLogs(chainLogs, shape, from, to) ==
  LET Match(l) == l.shape = shape /\ from <= l.block /\ l.block <= to
  IN SelectSeq(chainLogs, Match)

LiquidityInfo(reserve0, reserve1) ==
  [reserve0 |-> reserve0, reserve1 |-> reserve1, totalSupply |-> 0]

\* a plausible slip: the V3 mint is tried first
LiquidityV3First(v2, v3, decodes) ==
  IF v3.status = "fulfilled" /\ Len(v3.value) > 0
  THEN IF decodes
       THEN LiquidityInfo(v3.value[1].amount0, v3.value[1].amount1)
       ELSE LiquidityInfo(0, 0)
  ELSE IF v2.status = "fulfilled" /\ Len(v2.value) > 0
  THEN IF decodes
       THEN LiquidityInfo(v2.value[1].amount0, v2.value[1].amount1)
       ELSE LiquidityInfo(0, 0)
  ELSE LiquidityInfo(0, 0)

\* a plausible slip: the last mint of the window is used
LiquidityLastMint(v2, v3, decodes) ==
  IF v2.status = "fulfilled" /\ Len(v2.value) > 0
  THEN IF decodes
       THEN LiquidityInfo(v2.value[Len(v2.value)].amount0, v2.value[Len(v2.value)].amount1)
       ELSE LiquidityInfo(0, 0)
  ELSE IF v3.status = "fulfilled" /\ Len(v3.value) > 0
  THEN IF decodes
       THEN LiquidityInfo(v3.value[Len(v3.value)].amount0, v3.value[Len(v3.value)].amount1)
       ELSE LiquidityInfo(0, 0)
  ELSE LiquidityInfo(0, 0)

\* getPairLiquidity after Promise.allSettled: v2, v3 are the settled results,
\* decodes tells whether decodeEventLog accepts the first log (else it throws
\* into the catch, which returns the zero reserves)
LiquidityOf(v2, v3, decodes) ==
  IF v2.status = "fulfilled" /\ Len(v2.value) > 0
  THEN IF decodes
       THEN LiquidityInfo(v2.value[1].amount0, v2.value[1].amount1)
       ELSE LiquidityInfo(0, 0)
  ELSE IF v3.status = "fulfilled" /\ Len(v3.value) > 0
  THEN IF decodes
       THEN LiquidityInfo(v3.value[1].amount0, v3.value[1].amount1)
       ELSE LiquidityInfo(0, 0)
  ELSE LiquidityInfo(0, 0)

-----------------------------------------------------------------------------
(* getTokenInfo, formatInitialLiquidity *)

DEFAULT_DECIMALS == 18

\* a TokenInfo: an optional field that is unset has has* = FALSE
\* a plausible slip: Promise.all in place of Promise.allSettled, so that one
\* failing read leaves every field unset
TokenInfoAllOrNothing(address, name, symbol, decimals) ==
  LET all == /\ name.status = "fulfilled" /\ symbol.status = "fulfilled"
             /\ decimals.status = "fulfilled"
  IN [address |-> address,
      hasName |-> all, name |-> IF all THEN name.value ELSE "",
      hasSymbol |-> all, symbol |-> IF all THEN symbol.value ELSE "",
      hasDecimals |-> all, decimals |-> IF all THEN decimals.value ELSE 0]

TokenInfo(address, name, symbol, decimals) ==
  [address |-> address,
   hasName |-> name.status = "fulfilled",
   name |-> IF name.status = "fulfilled" THEN name.value ELSE "",
   hasSymbol |-> symbol.status = "fulfilled",
   symbol |-> IF symbol.status = "fulfilled" THEN symbol.value ELSE "",
   hasDecimals |-> decimals.status = "fulfilled",
   decimals |-> IF decimals.status = "fulfilled" THEN decimals.value ELSE 0]

RECURSIVE Pow10(_)
Pow10(n) == IF n = 0 THEN 1 ELSE 10 * Pow10(n - 1)

\* parseFloat(formatUnits(reserve, decimals)).toFixed(2), in hundredths; the
\* reserves of the model are below 10^9, so that beyond 11 decimals the amount
\* rounds to 0.00
ToFixed2(reserve, decimals) ==
  IF decimals > 11 THEN 0
  ELSE IF decimals >= 2
  THEN (2 * reserve + Pow10(decimals - 2)) \div (2 * Pow10(decimals - 2))
  ELSE reserve * Pow10(2 - decimals)

\* the string formatInitialLiquidity returns: a sentinel, or
\* "<amt0> <symbol0> / <amt1> <symbol1>" as its four parts
Sentinel(text) == [text |-> text, amt0 |-> 0, sym0 |-> "", amt1 |-> 0, sym1 |-> ""]
Formatted(amt0, sym0, amt1, sym1) ==
  [text |-> "formatted", amt0 |-> amt0, sym0 |-> sym0, amt1 |-> amt1, sym1 |-> sym1]

NO_LIQUIDITY == Sentinel("No liquidity")
UNABLE_TO_FETCH == Sentinel("Unable to fetch")

\* tokenInfos[i]?.decimals || 18
DecimalsOrDefault(info) ==
  IF info.hasDecimals /\ info.decimals # 0 THEN info.decimals ELSE DEFAULT_DECIMALS

\* tokenInfos[i]?.symbol || placeholder
SymbolOrDefault(info, placeholder) ==
  IF info.hasSymbol /\ info.symbol # "" THEN info.symbol ELSE placeholder

\* a plausible slip: a pool with one empty side is reported as without
\* liquidity, and token1 is written first
formatToken1First(liq, infos) ==
  IF liq.reserve0 = 0 \/ liq.reserve1 = 0 THEN NO_LIQUIDITY
  ELSE Formatted(ToFixed2(liq.reserve1, DecimalsOrDefault(infos[2])),
                 SymbolOrDefault(infos[2], "TOKEN1"),
                 ToFixed2(liq.reserve0, DecimalsOrDefault(infos[1])),
                 SymbolOrDefault(infos[1], "TOKEN0"))

formatInitialLiquidity(liq, infos) ==
  IF liq.reserve0 = 0 /\ liq.reserve1 = 0 THEN NO_LIQUIDITY
  ELSE Formatted(ToFixed2(liq.reserve0, DecimalsOrDefault(infos[1])),
                 SymbolOrDefault(infos[1], "TOKEN0"),
                 ToFixed2(liq.reserve1, DecimalsOrDefault(infos[2])),
                 SymbolOrDefault(infos[2], "TOKEN1"))

\* the record enrichPairData pushes on the success path
EnrichedPair(pair, initLiquidity, holders, infos) ==
  [init_liquidity |-> initLiquidity, top_holders |-> holders,
   tokens |-> <<infos[1].address, infos[2].address>>] @@ pair

\* the record enrichPairData pushes from its catch
UnenrichedPair(pair) ==
  [init_liquidity |-> UNABLE_TO_FETCH, top_holders |-> <<>>] @@ pair

\* a plausible slip: a pair whose liquidity lookup failed is pushed as it is
enrichPairUnset(pair, rpc) ==
  IF rpc.v2 = Rejected /\ rpc.v3 = Rejected THEN pair
  ELSE LET infos == [i \in 1..2 |->
                       TokenInfo(pair.tokens[i], rpc.meta[i].name, rpc.meta[i].symbol,
                                 rpc.meta[i].decimals)]
       IN EnrichedPair(pair, formatInitialLiquidity(LiquidityOf(rpc.v2, rpc.v3, rpc.decodes),
                                                    infos), <<>>, infos)

\* what the node answers while one pair is enriched: the settled mint queries,
\* the settled name/symbol/decimals reads of both tokens, and the Transfer logs
\* (or the failure) of getTopHolders
\* a plausible slip: getTopHolders lets its error through, and the catch of
\* enrichPairData pushes the pool without its liquidity
enrichPairHoldersThrow(pair, rpc) ==
  IF ~rpc.holdersOk THEN UnenrichedPair(pair)
  ELSE LET infos == [i \in 1..2 |->
                       TokenInfo(pair.tokens[i], rpc.meta[i].name, rpc.meta[i].symbol,
                                 rpc.meta[i].decimals)]
       IN EnrichedPair(pair, formatInitialLiquidity(LiquidityOf(rpc.v2, rpc.v3, rpc.decodes),
                                                    infos),
                       RankHolders(ReplayLogs(rpc.transfers), TOP_HOLDERS_LIMIT), infos)

enrichPair(pair, rpc) ==
  LET liq == LiquidityOf(rpc.v2, rpc.v3, rpc.decodes)
      infos == [i \in 1..2 |->
                  TokenInfo(pair.tokens[i], rpc.meta[i].name, rpc.meta[i].symbol,
                            rpc.meta[i].decimals)]
      holders == IF rpc.holdersOk
                 THEN RankHolders(ReplayLogs(rpc.transfers), TOP_HOLDERS_LIMIT)
                 ELSE <<>>
  IN EnrichedPair(pair, formatInitialLiquidity(liq, infos), holders, infos)

-----------------------------------------------------------------------------
(* enrichPairData on one pool, step by step *)

CreationBlock == 100
MintBlocks == {CreationBlock, CreationBlock + 2, CreationBlock + 5,
               CreationBlock + MINT_SCAN_BLOCKS + 1}
MintAmounts == {<<0, 0>>, <<500, 700>>, <<300, 0>>}

MintLogs ==
  {MintLog(sh, b, a[1], a[2]) : sh \in {"v2", "v3"}, b \in MintBlocks, a \in MintAmounts}

\* the chain holds a pool's logs in block order
MintWorlds(n) ==
  {w \in SeqsUpTo(MintLogs, n) : \A i \in 1..(Len(w) - 1) : w[i].block <= w[i + 1].block}

SymbolOf(token) == IF token = 11 THEN "AAA" ELSE "BBB"

NameReads == {Failed(""), Fulfilled("Token")}
SymbolReads(token) == {Failed(""), Fulfilled(SymbolOf(token))}
DecimalsReads == {Failed(0), Fulfilled(0), Fulfilled(2)}

\* the Transfer logs of the enriched pool's liquidity token
PoolTransfers == <<TransferLog(ZERO_ADDRESS, 1, 100), TransferLog(1, 2, 40)>>

EnrIdle ==
  /\ mints = <<>> /\ ePair = <<>> /\ v2Logs = NotCalled /\ v3Logs = NotCalled
  /\ mintDecodes = TRUE /\ liquidity = LiquidityInfo(0, 0) /\ tokenInfos = <<>>
  /\ eReads = <<>>
  /\ eHolders = <<>> /\ eOut = <<>> /\ ePc = "off"

EnrStart(n) ==
  /\ mints \in MintWorlds(n)
  /\ ePair = PairInfo(1, 11, 12, CreationBlock, 1, "v2")
  /\ v2Logs = NotCalled /\ v3Logs = NotCalled
  /\ mintDecodes = TRUE /\ liquidity = LiquidityInfo(0, 0) /\ tokenInfos = <<>>
  /\ eReads = <<>>
  /\ eHolders = <<>> /\ eOut = <<>> /\ ePc = "liquidity"

\* the result of one mint query: the logs of the window, or a rejection
MintQuery(shape) ==
  {Rejected,
   Fulfilled(getLogs(mints, shape, ePair.block_number,
                     ePair.block_number + MINT_SCAN_BLOCKS))}

\* getPairLiquidity: both getLogs settle, then the first V2 log, else the first
\* V3 log is decoded
EnrichGetPairLiquidity ==
  /\ ePc = "liquidity"
  /\ \E v2 \in MintQuery("v2"), v3 \in MintQuery("v3"), d \in BOOLEAN :
       \* decodeEventLog is only called when a log was retrieved
       /\ (d = FALSE) => (Len(v2.value) > 0 \/ Len(v3.value) > 0)
       /\ v2Logs' = v2 /\ v3Logs' = v3 /\ mintDecodes' = d
       /\ liquidity' = LiquidityOf(v2, v3, d)
  /\ ePc' = "tokens"
  /\ UNCHANGED <<mints, ePair, tokenInfos, eReads, eHolders, eOut, notEnr>>

\* getTokenInfo of the next token: the three reads settle independently
EnrichGetTokenInfo ==
  /\ ePc = "tokens"
  /\ LET token == ePair.tokens[Len(tokenInfos) + 1]
     IN \E n \in NameReads, sy \in SymbolReads(token), de \in DecimalsReads :
          /\ tokenInfos' = Append(tokenInfos, TokenInfo(token, n, sy, de))
          /\ eReads' = Append(eReads, [name |-> n, symbol |-> sy, decimals |-> de])
  /\ ePc' = IF Len(tokenInfos) + 1 = Len(ePair.tokens) THEN "holders" ELSE "tokens"
  /\ UNCHANGED <<mints, ePair, v2Logs, v3Logs, mintDecodes, liquidity, eHolders, eOut, notEnr>>

\* getTopHolders settles, then formatInitialLiquidity and the push
EnrichGetTopHolders ==
  /\ ePc = "holders"
  /\ \E ok \in BOOLEAN :
       LET holders == IF ok
                      THEN RankHolders(ReplayLogs(PoolTransfers), TOP_HOLDERS_LIMIT)
                      ELSE <<>>
       IN /\ eHolders' = holders
          /\ eOut' = <<EnrichedPair(ePair, formatInitialLiquidity(liquidity, tokenInfos),
                                    holders, tokenInfos)>>
  /\ ePc' = "done"
  /\ UNCHANGED <<mints, ePair, v2Logs, v3Logs, mintDecodes, liquidity, tokenInfos, eReads,
                 notEnr>>

-----------------------------------------------------------------------------
(* the list entrypoint: the values of its input and its output *)

\* a window_minutes as the caller sends it: a string, a number, or nothing
WindowString(chars) == [kind |-> "string", chars |-> chars, num |-> 0]
WindowNumber(n) == [kind |-> "number", chars |-> <<>>, num |-> n]
WindowUndefined == [kind |-> "undefined", chars |-> <<>>, num |-> 0]

NoOutput ==
  [kind |-> "none", success |-> FALSE, chain |-> "", window_minutes |-> WindowUndefined,
   total_pairs_found |-> 0, pairs |-> <<>>, error |-> ""]

\* { output: { success: true, chain, window_minutes, total_pairs_found, pairs } }
SuccessOutput(chain, windowMinutes, pairs) ==
  [kind |-> "output", success |-> TRUE, chain |-> chain, window_minutes |-> windowMinutes,
   total_pairs_found |-> Len(pairs), pairs |-> pairs, error |-> ""]

\* { output: { success: false, error } }
FailureOutput(message) ==
  [kind |-> "output", success |-> FALSE, chain |-> "", window_minutes |-> WindowUndefined,
   total_pairs_found |-> 0, pairs |-> <<>>, error |-> message]

\* the handler's promise rejects: the error goes to the framework
HandlerThrew(message) ==
  [kind |-> "thrown", success |-> FALSE, chain |-> "", window_minutes |-> WindowUndefined,
   total_pairs_found |-> 0, pairs |-> <<>>, error |-> message]

-----------------------------------------------------------------------------
(* the tail of detectNewPairs: deduplicatePairs, then enrichPairData *)

DedupFactories == 1..2

\* the pool addresses of a list of records
Addresses(pairs) == {pairs[i].pair_address : i \in 1..Len(pairs)}

DedupRecords ==
  {PairInfo(a, 11, 12, CreationBlock, f, "v2") : a \in PoolAddrs, f \in DedupFactories}

\* the node while the tail runs: every call rejects, or every call answers
RpcDown ==
  [v2 |-> Rejected, v3 |-> Rejected, decodes |-> TRUE,
   meta |-> [i \in 1..2 |-> [name |-> Failed(""), symbol |-> Failed(""),
                             decimals |-> Failed(0)]],
   headOk |-> FALSE, holdersOk |-> FALSE, transfers |-> <<>>]

\* the chain: pool 1 was minted into in its creation block and its liquidity
\* token moved; the other pools are empty
ChainMints(pair) ==
  IF pair.pair_address = 1 THEN <<MintLog("v2", pair.block_number, 500, 700)>> ELSE <<>>

ChainTransfers(pair) == IF pair.pair_address = 1 THEN PoolTransfers ELSE <<>>

RpcUp(pair) ==
  [v2 |-> Fulfilled(getLogs(ChainMints(pair), "v2", pair.block_number,
                            pair.block_number + MINT_SCAN_BLOCKS)),
   v3 |-> Fulfilled(getLogs(ChainMints(pair), "v3", pair.block_number,
                            pair.block_number + MINT_SCAN_BLOCKS)),
   decodes |-> TRUE,
   meta |-> [i \in 1..2 |-> [name |-> Fulfilled("Token"),
                             symbol |-> Fulfilled(SymbolOf(pair.tokens[i])),
                             decimals |-> Fulfilled(2)]],
   headOk |-> TRUE, holdersOk |-> TRUE, transfers |-> ChainTransfers(pair)]

\* the node while one pair is enriched: the mint queries, the metadata reads
\* and the holder queries each answer or reject
RpcPartial(pair, mintOk, metaOk, holdersOk) ==
  [v2 |-> IF mintOk THEN RpcUp(pair).v2 ELSE RpcDown.v2,
   v3 |-> IF mintOk THEN RpcUp(pair).v3 ELSE RpcDown.v3,
   decodes |-> TRUE,
   meta |-> IF metaOk THEN RpcUp(pair).meta ELSE RpcDown.meta,
   headOk |-> holdersOk, holdersOk |-> holdersOk,
   transfers |-> IF holdersOk THEN RpcUp(pair).transfers ELSE <<>>]

RpcCombinations(pair) ==
  {RpcPartial(pair, mintOk, metaOk, holdersOk) :
     mintOk \in BOOLEAN, metaOk \in BOOLEAN, holdersOk \in BOOLEAN}

DedIdle ==
  /\ dAllPairs = <<>> /\ dUnique = <<>> /\ dEnriched = <<>> /\ dResponse = NoOutput
  /\ dPc = "off" /\ dHoldersOk = <<>>

DedInit ==
  /\ dAllPairs \in SeqsUpTo(DedupRecords, MaxPairs)
  /\ dUnique = <<>> /\ dEnriched = <<>> /\ dResponse = NoOutput /\ dPc = "dedup"
  /\ dHoldersOk = <<>>

\* const uniquePairs = deduplicatePairs(allPairs)
Deduplicate ==
  /\ dPc = "dedup"
  /\ dUnique' = deduplicatePairs(dAllPairs)
  /\ dPc' = IF deduplicatePairs(dAllPairs) = <<>> THEN "return" ELSE "enrich"
  /\ UNCHANGED <<dAllPairs, dEnriched, dResponse, dHoldersOk, notDed>>

\* a plausible slip: the enrichment fields are assigned to the pair itself
\* (Object.assign(pair, ...)) and the pair is pushed
pairsAssigned(pairs, i, enriched) == [pairs EXCEPT ![i] = enriched]

\* the array pairs after enrichedPairs.push({...pair, ...}) of its i-th record:
\* the spread copies the fields into a new object, pairs[i] is not written
pairsAfterPush(pairs, i, enriched) == pairs

\* one iteration of the loop of enrichPairData
DedupEnrich ==
  /\ dPc = "enrich"
  /\ LET i == Len(dEnriched) + 1
         pair == dUnique[i]
     IN \E rpc \in RpcCombinations(pair) :
          /\ dEnriched' = Append(dEnriched, enrichPair(pair, rpc))
          /\ dUnique' = pairsAfterPush(dUnique, i, enrichPair(pair, rpc))
          /\ dHoldersOk' = Append(dHoldersOk, rpc.holdersOk)
  /\ dPc' = IF Len(dEnriched) + 1 = Len(dUnique) THEN "return" ELSE "enrich"
  /\ UNCHANGED <<dAllPairs, dResponse, notDed>>

\* return enrichedPairs, and the list handler's return
DedupRespond ==
  /\ dPc = "return"
  /\ dResponse' = SuccessOutput("base", WindowNumber(1), dEnriched)
  /\ dPc' = "done"
  /\ UNCHANGED <<dAllPairs, dUnique, dEnriched, dHoldersOk, notDed>>

-----------------------------------------------------------------------------
(* Chain registry *)

RegistryChains == {"ethereum", "polygon", "arbitrum", "optimism", "base", "bsc",
                   "avalanche", "fantom", "gnosis", "celo", "moonbeam"}

\* chain.toLowerCase(), on the chain strings of the model
ToLowerCase(chain) ==
  CASE chain = "Base" -> "base"
    [] chain = "BASE" -> "base"
    [] chain = "Ethereum" -> "ethereum"
    [] OTHER -> chain

\* blockTime of CHAIN_CONFIGS, in milliseconds (arbitrum: 0.25 s)
BlockTimeMs(name) ==
  CASE name = "ethereum" -> 12000
    [] name = "polygon" -> 2000
    [] name = "arbitrum" -> 250
    [] name = "optimism" -> 2000
    [] name = "base" -> 2000
    [] name = "bsc" -> 3000
    [] name = "avalanche" -> 2000
    [] name = "fantom" -> 1000
    [] name = "gnosis" -> 5000
    [] name = "celo" -> 5000
    [] name = "moonbeam" -> 12000

DEFAULT_BLOCK_TIME_MS == 12000

\* CHAIN_CONFIGS is an object literal: besides its own keys, indexing it finds
\* the properties it inherits from Object.prototype
InheritedKeys == {"constructor", "__proto__"}

\* a JavaScript number: an integer of the model, or NaN
Num(v) == [nan |-> FALSE, value |-> v]
NaN == [nan |-> TRUE, value |-> 0]

\* getChainConfig(chain) = CHAIN_CONFIGS[chain.toLowerCase()]: found is FALSE
\* for undefined; an inherited property is found and has no blockTime and no
\* defaultRpc
getChainConfig(chain) ==
  IF ToLowerCase(chain) \in RegistryChains
  THEN [found |-> TRUE, hasBlockTime |-> TRUE,
        blockTimeMs |-> BlockTimeMs(ToLowerCase(chain)), defaultRpc |-> "default"]
  ELSE IF ToLowerCase(chain) \in InheritedKeys
  THEN [found |-> TRUE, hasBlockTime |-> FALSE, blockTimeMs |-> 0, defaultRpc |-> ""]
  ELSE [found |-> FALSE, hasBlockTime |-> FALSE, blockTimeMs |-> 0, defaultRpc |-> ""]

\* Math.floor((windowMinutes * 60) / blockTime); a division by undefined is NaN
estimateBlocksForTimeWindow(chain, windowMinutes) ==
  LET config == getChainConfig(chain)
  IN IF ~config.found
     THEN Num((windowMinutes * 60 * 1000) \div DEFAULT_BLOCK_TIME_MS)
     ELSE IF ~config.hasBlockTime THEN NaN
     ELSE Num((windowMinutes * 60 * 1000) \div config.blockTimeMs)

\* one call estimateBlocksForTimeWindow(chain, windowMinutes)
EstChains == RegistryChains \cup {"Base", "BASE", "Ethereum", "nochain", "", "constructor"}
EstWindows == {-5, 1, 7, 1440}

EstIdle == xChain = "" /\ xWindow = 0 /\ xBlocks = Num(0) /\ xPc = "off"

EstInit ==
  xChain \in EstChains /\ xWindow \in EstWindows /\ xBlocks = Num(0) /\ xPc = "ready"

Estimate ==
  /\ xPc = "ready"
  /\ xBlocks' = estimateBlocksForTimeWindow(xChain, xWindow)
  /\ xPc' = "done"
  /\ UNCHANGED <<xChain, xWindow, notEst>>

-----------------------------------------------------------------------------
(* Cache *)

CACHE_TTL_MS == 60000
DEFAULT_TTL == 60000
CLEANUP_INTERVAL_MS == 30000

EmptyStore == [k \in {} |-> 0]

\* a plausible slip: an entry expires when its age reaches the ttl
ExpiredAtTtl(entry, t) == t - entry.timestamp >= entry.ttl

\* a plausible slip: the ttl is taken for seconds
ExpiredTtlInSeconds(entry, t) == t - entry.timestamp > entry.ttl * 1000

\* now - entry.timestamp > entry.ttl
Expired(entry, t) == t - entry.timestamp > entry.ttl

Without(st, key) == [k \in DOMAIN st \ {key} |-> st[k]]

\* a plausible slip: the pools are added to the pools the key already holds
CacheSetAppend(st, key, value, ttlMs, t) ==
  (key :> [data |-> (IF key \in DOMAIN st THEN st[key].data ELSE <<>>) \o value,
           timestamp |-> t,
           ttl |-> IF ttlMs # 0 THEN ttlMs ELSE DEFAULT_TTL]) @@ st

\* Cache.set(key, value, ttlMs) at time t
CacheSet(st, key, value, ttlMs, t) ==
  (key :> [data |-> value, timestamp |-> t,
           ttl |-> IF ttlMs # 0 THEN ttlMs ELSE DEFAULT_TTL]) @@ st

\* Cache.get(key) at time t returns the data (not null)
CacheHit(st, key, t) == key \in DOMAIN st /\ ~Expired(st[key], t)

\* a plausible slip: a hit renews the entry (sliding expiration)
CacheGetRefresh(st, key, t) ==
  IF key \in DOMAIN st /\ Expired(st[key], t) THEN Without(st, key)
  ELSE IF key \in DOMAIN st THEN [st EXCEPT ![key].timestamp = t]
  ELSE st

\* the store after Cache.get(key) at time t: an expired entry is deleted
CacheAfterGet(st, key, t) ==
  IF key \in DOMAIN st /\ Expired(st[key], t) THEN Without(st, key) ELSE st

\* a plausible slip: the sweep deletes nothing
CleanupKeepsAll(st, t) == st

\* the store after Cache.cleanup() at time t
CacheCleanup(st, t) == [k \in {x \in DOMAIN st : ~Expired(st[x], t)} |-> st[k]]

-----------------------------------------------------------------------------
(* detectNewPairs *)

Requests == 1..2
InitialHead == 1000

\* strings no getAddress accepts, and a lower-case spelling of factory 1
InvalidAddresses == {0}
LowerCaseOf1 == 11

\* viem getAddress on a valid address: the checksummed spelling
getAddress(a) == IF a = LowerCaseOf1 THEN 1 ELSE a

\* a creation log of a factory as the chain holds it: PairCreated is "v2",
\* PoolCreated "v3"
CreationLog(shape, block, pool, token0, token1) ==
  [shape |-> shape, block |-> block, pool |-> pool, token0 |-> token0, token1 |-> token1]

ChainCreations(factory) ==
  CASE factory = 1 -> <<CreationLog("v2", 996, 1, 11, 12), CreationLog("v3", 998, 2, 11, 13)>>
    [] factory = 2 -> <<CreationLog("v2", 960, 3, 12, 13), CreationLog("v2", 965, 4, 13, 11)>>
    [] OTHER -> <<>>

\* a PairInfo as parsePoolCreatedLog returns it
PoolInfo(pool, token0, token1, blockNumber, factory, fee, tickSpacing) ==
  [fee |-> fee, tick_spacing |-> tickSpacing]
    @@ PairInfo(pool, token0, token1, blockNumber, factory, "v3")

\* a plausible slip: the two tokens of a record are put in ascending order
parseLogSorted(log, factory) ==
  LET lo == IF log.token0 < log.token1 THEN log.token0 ELSE log.token1
      hi == IF log.token0 < log.token1 THEN log.token1 ELSE log.token0
  IN IF log.shape = "v2"
     THEN PairInfo(log.pool, lo, hi, log.block, factory, "v2")
     ELSE PoolInfo(log.pool, lo, hi, log.block, factory, "3000", 60)

\* parsePairCreatedLog / parsePoolCreatedLog on a log that decodes; the decoded
\* token addresses are checksummed already, so getAddress returns them as
\* they are
parseLog(log, factory) ==
  IF log.shape = "v2"
  THEN PairInfo(log.pool, log.token0, log.token1, log.block, factory, "v2")
  ELSE PoolInfo(log.pool, log.token0, log.token1, log.block, factory, "3000", 60)

\* the logs of a settled query, none when it was rejected
LogsOf(settled) == IF settled.status = "fulfilled" THEN settled.value ELSE <<>>

\* a plausible slip: the parse is not guarded per log, so the first log that
\* fails ends the loop over the logs of the query
ParseUntilBad(logs, factory, bad) ==
  LET stop == IF \E i \in 1..Len(logs) : logs[i].pool \in bad
              THEN CHOOSE i \in 1..Len(logs) :
                     /\ logs[i].pool \in bad
                     /\ \A j \in 1..(i - 1) : logs[j].pool \notin bad
              ELSE Len(logs) + 1
  IN [i \in 1..(stop - 1) |-> parseLog(logs[i], factory)]

\* the loop over the logs of one query: a log that fails to parse is skipped
ParseAll(logs, factory, bad) ==
  LET Good(l) == l.pool \notin bad
      good == SelectSeq(logs, Good)
  IN [i \in 1..Len(good) |-> parseLog(good[i], factory)]

\* a plausible slip: Promise.all in place of Promise.allSettled, so that a
\* rejected query of either shape throws before any log is parsed
CollectAllOrNothing(v2, v3, factory, bad) ==
  IF v2.status = "rejected" \/ v3.status = "rejected" THEN <<>>
  ELSE ParseAll(LogsOf(v2), factory, bad) \o ParseAll(LogsOf(v3), factory, bad)

\* the records of one factory: the two queries are settled independently, the
\* logs of the fulfilled V2 query are parsed, then those of the fulfilled V3
\* query
CollectShapes(v2, v3, factory, bad) ==
  ParseAll(LogsOf(v2), factory, bad) \o ParseAll(LogsOf(v3), factory, bad)

\* a plausible slip: the pairs of a factory replace those collected so far
ReplaceAll(pairs, pushed) == pushed

\* allPairs.push(...) for every parsed log
PushAll(pairs, pushed) == pairs \o pushed

\* a plausible slip: a throw in the loop body escapes to the outer catch
AbortOnFailure(threw, i, n) ==
  IF threw THEN "error" ELSE IF i = n THEN "endScan" ELSE "scan"

\* a plausible slip: a factory whose iteration threw is tried again
RetryOnFailure(threw, i, n) ==
  IF threw THEN "retry" ELSE IF i = n THEN "endScan" ELSE "scan"

\* where the factory loop goes after an iteration: the catch logs the error and
\* the loop continues with the next factory
FactoryLoopNext(threw, i, n) == IF i = n THEN "endScan" ELSE "scan"

NoCalls == [getBlockNumber |-> 0, getLogs |-> 0, getBlock |-> 0, readContract |-> 0]
Calls(bn, logs, blk, read) ==
  [getBlockNumber |-> bn, getLogs |-> logs, getBlock |-> blk, readContract |-> read]
AddCalls(c, d) == [k \in DOMAIN c |-> c[k] + d[k]]

\* the RPC calls of enrichPairData on one pair: two mint queries, three reads
\* per token, the head and, when it came, the Transfer query
EnrichCalls(rpc) == Calls(1, 2 + (IF rpc.headOk THEN 1 ELSE 0), 0, 6)

RpcOutcomes(pair, faults) ==
  {RpcUp(pair)} \cup (IF "enrich" \in faults THEN {RpcDown} ELSE {})

NoOptions == [chain |-> "", factories |-> <<>>, windowMinutes |-> 0, rpcUrl |-> ""]
Options(chain, factories, windowMinutes, rpcUrl) ==
  [chain |-> chain, factories |-> factories, windowMinutes |-> windowMinutes,
   rpcUrl |-> rpcUrl]

\* a plausible slip: a chain without an endpoint is queried through the
\* default endpoint of Ethereum
rpcEndpointFallback(o) ==
  IF o.rpcUrl # "" THEN o.rpcUrl
  ELSE IF getChainConfig(o.chain).found /\ getChainConfig(o.chain).defaultRpc # ""
  THEN getChainConfig(o.chain).defaultRpc
  ELSE getChainConfig("ethereum").defaultRpc

\* rpcUrl || chainConfig?.defaultRpc; "" is undefined
rpcEndpoint(o) ==
  IF o.rpcUrl # "" THEN o.rpcUrl
  ELSE IF getChainConfig(o.chain).found THEN getChainConfig(o.chain).defaultRpc
  ELSE ""

NoReturn == [kind |-> "none", value |-> <<>>, error |-> "", chain |-> "", at |-> 0]
Returned(value, t) == [kind |-> "value", value |-> value, error |-> "", chain |-> "", at |-> t]
\* the Error thrown; chain is the chain its message names, "" if none
Thrown(error, chain, t) ==
  [kind |-> "error", value |-> <<>>, error |-> error, chain |-> chain, at |-> t]

PipeIdle ==
  /\ env = [menu |-> {}, faults |-> {}]
  /\ now = 0 /\ head = 0 /\ store = EmptyStore
  /\ pc = <<>> /\ options = <<>> /\ currentBlock = <<>> /\ fromBlock = <<>>
  /\ cacheKey = <<>> /\ cachedResult = <<>> /\ fIdx = <<>> /\ scanned = <<>>
  /\ allPairs = <<>> /\ uniquePairs = <<>> /\ enrichedPairs = <<>>
  /\ rpcCalls = <<>> /\ ret = <<>> /\ calledAt = <<>> /\ supplied = <<>>

\* the process after the module is loaded; live is the set of requests that
\* will be sent
PipeInit(menu, faults, live) ==
  /\ env = [menu |-> menu, faults |-> faults]
  /\ now = 0 /\ head = InitialHead /\ store = EmptyStore
  /\ pc = [r \in Requests |-> IF r \in live THEN "idle" ELSE "off"]
  /\ options = [r \in Requests |-> NoOptions]
  /\ currentBlock = [r \in Requests |-> 0]
  /\ fromBlock = [r \in Requests |-> 0]
  /\ cacheKey = [r \in Requests |-> NoKey]
  /\ cachedResult = [r \in Requests |-> "none"]
  /\ fIdx = [r \in Requests |-> 0]
  /\ scanned = [r \in Requests |-> <<>>]
  /\ allPairs = [r \in Requests |-> <<>>]
  /\ uniquePairs = [r \in Requests |-> <<>>]
  /\ enrichedPairs = [r \in Requests |-> <<>>]
  /\ rpcCalls = [r \in Requests |-> NoCalls]
  /\ ret = [r \in Requests |-> NoReturn]
  /\ calledAt = [r \in Requests |-> 0]
  /\ supplied = [r \in Requests |-> <<>>]

\* detectNewPairs(o) up to its first await: the endpoint is resolved, or the
\* configuration error is thrown
Invoke(r, o) ==
  /\ pc[r] = "idle"
  /\ calledAt' = [calledAt EXCEPT ![r] = now]
  /\ supplied' = [supplied EXCEPT ![r] = o.factories]
  /\ options' = [options EXCEPT ![r] = o]
  /\ IF rpcEndpoint(o) = ""
     THEN /\ pc' = [pc EXCEPT ![r] = "error"]
          /\ ret' = [ret EXCEPT ![r] =
                       Thrown("No RPC endpoint available for chain", o.chain, now)]
     ELSE /\ pc' = [pc EXCEPT ![r] = "getBlockNumber"]
          /\ UNCHANGED ret
  /\ UNCHANGED <<procVars, currentBlock, fromBlock, cacheKey, cachedResult, fIdx, scanned,
                 allPairs, uniquePairs, enrichedPairs, rpcCalls, notCore>>

\* a caller of detectNewPairs sends one of the requests of the run
Call(r) ==
  /\ \E o \in env.menu : Invoke(r, o)
  /\ UNCHANGED listVars

\* where detectNewPairs goes when the factory loop is over: deduplicatePairs,
\* then enrichPairData pair by pair
\* a plausible slip: the result is cached before the pools are enriched
WriteBeforeEnrich(unique) == "write"

AfterScan(unique) == IF unique = <<>> THEN "write" ELSE "enrich"

\* await client.getBlockNumber() and the synchronous code after it: the block
\* range, the cache key (which sorts the caller's array) and the cache lookup
GetBlockNumber(r) ==
  /\ pc[r] = "getBlockNumber"
  /\ rpcCalls' = [rpcCalls EXCEPT ![r] = AddCalls(@, Calls(1, 0, 0, 0))]
  /\ \/ /\ "getBlockNumber" \in env.faults
        /\ pc' = [pc EXCEPT ![r] = "error"]
        /\ ret' = [ret EXCEPT ![r] = Thrown("Failed to detect new pairs", "", now)]
        /\ UNCHANGED <<store, options, currentBlock, fromBlock, cacheKey, cachedResult,
                       fIdx, uniquePairs>>
     \/ \* BigInt(NaN) throws a RangeError
        /\ estimateBlocksForTimeWindow(options[r].chain, options[r].windowMinutes).nan
        /\ pc' = [pc EXCEPT ![r] = "error"]
        /\ ret' = [ret EXCEPT ![r] = Thrown("Failed to detect new pairs", "", now)]
        /\ currentBlock' = [currentBlock EXCEPT ![r] = head]
        /\ UNCHANGED <<store, options, fromBlock, cacheKey, cachedResult, fIdx, uniquePairs>>
     \/ LET o == options[r]
            blocksToScan == estimateBlocksForTimeWindow(o.chain, o.windowMinutes).value
            from == head - blocksToScan
            key == generateKey(o.chain, o.factories, from, head)
            sorted == SortedFactories(o.factories)
        IN /\ ~estimateBlocksForTimeWindow(o.chain, o.windowMinutes).nan
           /\ currentBlock' = [currentBlock EXCEPT ![r] = head]
           /\ fromBlock' = [fromBlock EXCEPT ![r] = from]
           /\ cacheKey' = [cacheKey EXCEPT ![r] = key]
           /\ options' = [options EXCEPT ![r].factories = sorted]
           /\ store' = CacheAfterGet(store, key, now)
           /\ IF CacheHit(store, key, now)
              THEN /\ cachedResult' = [cachedResult EXCEPT ![r] = "hit"]
                   /\ ret' = [ret EXCEPT ![r] = Returned(store[key].data, now)]
                   /\ pc' = [pc EXCEPT ![r] = "done"]
                   /\ UNCHANGED <<fIdx, uniquePairs>>
              ELSE /\ cachedResult' = [cachedResult EXCEPT ![r] = "miss"]
                   /\ UNCHANGED ret
                   /\ IF sorted = <<>>
                      THEN /\ uniquePairs' = [uniquePairs EXCEPT ![r] = deduplicatePairs(<<>>)]
                           /\ pc' = [pc EXCEPT ![r] = "write"]
                           /\ UNCHANGED fIdx
                      ELSE /\ fIdx' = [fIdx EXCEPT ![r] = 1]
                           /\ pc' = [pc EXCEPT ![r] = "scan"]
                           /\ UNCHANGED uniquePairs
  /\ UNCHANGED <<env, now, head, scanned, allPairs, enrichedPairs, calledAt, supplied, notPipe>>

\* what the node answers to one creation-log query
CreationQuery(address, shape, from, to, faults) ==
  {Fulfilled(getLogs(ChainCreations(address), shape, from, to))}
    \cup (IF "getLogs" \in faults THEN {Rejected} ELSE {})

Pools(logs) == {logs[i].pool : i \in 1..Len(logs)}

\* a plausible slip: toBlock is left out of the query, so the node answers up
\* to its latest block
QueryRangeLatest(from, current) == <<from, head>>

\* fromBlock and toBlock of the two getLogs queries of a factory
QueryRange(from, current) == <<from, current>>

\* one iteration of the factory loop, and deduplicatePairs after the last one
ScanFactory(r) ==
  /\ pc[r] = "scan"
  /\ LET i == fIdx[r]
         n == Len(options[r].factories)
         factory == options[r].factories[i]
         range == QueryRange(fromBlock[r], currentBlock[r])
     IN \E invalid \in {factory \in InvalidAddresses} :
        \E v2 \in IF invalid THEN {NotCalled}
                  ELSE CreationQuery(getAddress(factory), "v2", range[1], range[2],
                                     env.faults),
           v3 \in IF invalid THEN {NotCalled}
                  ELSE CreationQuery(getAddress(factory), "v3", range[1], range[2],
                                     env.faults) :
        \E undecoded \in IF "decode" \in env.faults
                         THEN SUBSET Pools(LogsOf(v2) \o LogsOf(v3)) ELSE {{}},
           unstamped \in IF "getBlock" \in env.faults
                         THEN SUBSET Pools(LogsOf(v2) \o LogsOf(v3)) ELSE {{}} :
          /\ undecoded \cap unstamped = {}
          /\ LET bad == undecoded \cup unstamped
                 pushed == CollectShapes(v2, v3, getAddress(factory), bad)
                 pairs == PushAll(allPairs[r], pushed)
                 next == FactoryLoopNext(invalid, i, n)
             IN /\ scanned' = [scanned EXCEPT ![r] =
                                 Append(@, [factory |-> factory, valid |-> ~invalid,
                                            range |-> IF invalid THEN <<>> ELSE range,
                                            v2 |-> v2, v3 |-> v3, bad |-> bad])]
                /\ allPairs' = [allPairs EXCEPT ![r] = pairs]
                /\ rpcCalls' = [rpcCalls EXCEPT ![r] =
                      AddCalls(@, Calls(0, IF invalid THEN 0 ELSE 2,
                                        Len(LogsOf(v2)) + Len(LogsOf(v3))
                                          - Cardinality(undecoded), 0))]
                /\ fIdx' = [fIdx EXCEPT ![r] = IF next = "retry" THEN i ELSE i + 1]
                /\ IF next = "endScan"
                   THEN /\ uniquePairs' = [uniquePairs EXCEPT ![r] = deduplicatePairs(pairs)]
                        /\ pc' = [pc EXCEPT ![r] = AfterScan(deduplicatePairs(pairs))]
                        /\ UNCHANGED ret
                   ELSE IF next = "error"
                   THEN /\ pc' = [pc EXCEPT ![r] = "error"]
                        /\ ret' = [ret EXCEPT ![r] =
                                     Thrown("Failed to detect new pairs", "", now)]
                        /\ UNCHANGED uniquePairs
                   ELSE /\ pc' = [pc EXCEPT ![r] = "scan"]
                        /\ UNCHANGED <<uniquePairs, ret>>
  /\ UNCHANGED <<procVars, options, currentBlock, fromBlock, cacheKey, cachedResult,
                 enrichedPairs, calledAt, supplied, notPipe>>

\* one iteration of the loop of enrichPairData
EnrichPool(r) ==
  /\ pc[r] = "enrich"
  /\ LET pair == uniquePairs[r][Len(enrichedPairs[r]) + 1]
     IN \E rpc \in RpcOutcomes(pair, env.faults) :
          /\ enrichedPairs' = [enrichedPairs EXCEPT ![r] = Append(@, enrichPair(pair, rpc))]
          /\ rpcCalls' = [rpcCalls EXCEPT ![r] = AddCalls(@, EnrichCalls(rpc))]
  /\ pc' = [pc EXCEPT ![r] =
              IF Len(enrichedPairs[r]) + 1 = Len(uniquePairs[r]) THEN "write" ELSE "enrich"]
  /\ UNCHANGED <<procVars, options, currentBlock, fromBlock, cacheKey, cachedResult, fIdx,
                 scanned, allPairs, uniquePairs, ret, calledAt, supplied, notPipe>>

\* a plausible slip: the deduplicated list is cached, the enriched one returned
CachedUnique(unique, enriched) == unique

\* the value handed to cache.set: enrichedPairs, the array that is returned
CachedPairs(unique, enriched) == enriched

\* cache.set(cacheKey, enrichedPairs, 60 * 1000); return enrichedPairs
WriteCache(r) ==
  /\ pc[r] = "write"
  /\ store' = CacheSet(store, cacheKey[r], CachedPairs(uniquePairs[r], enrichedPairs[r]),
                       CACHE_TTL_MS, now)
  /\ ret' = [ret EXCEPT ![r] = Returned(enrichedPairs[r], now)]
  /\ pc' = [pc EXCEPT ![r] = "done"]
  /\ UNCHANGED <<env, now, head, options, currentBlock, fromBlock, cacheKey, cachedResult,
                 fIdx, scanned, allPairs, uniquePairs, enrichedPairs, rpcCalls, calledAt,
                 supplied, notPipe>>

\* setInterval(() => cache.cleanup(), 30 * 1000)
Cleanup ==
  /\ store' = CacheCleanup(store, now)
  /\ UNCHANGED <<env, now, head, reqVars, notPipe>>

\* time passes; the clock is read every 30 s
Tick ==
  /\ now < MaxTicks * CLEANUP_INTERVAL_MS
  /\ now' = now + CLEANUP_INTERVAL_MS
  /\ UNCHANGED <<env, head, store, reqVars, notPipe>>

\* the chain grows by a block
NewBlock ==
  /\ head < InitialHead + MaxNewBlocks
  /\ head' = head + 1
  /\ UNCHANGED <<env, now, store, reqVars, notPipe>>

(* the cache used directly: set, get, delete, cleanup *)

NoCall == [op |-> "none", key |-> NoKey, removed |-> {}]
CallIdle == cCall = NoCall

CacheKeys == {generateKey("base", <<1>>, 970, 1000), generateKey("base", <<1, 2>>, 970, 1000)}
CacheValues == {<<>>, <<UnenrichedPair(PairInfo(1, 11, 12, 990, 1, "v2"))>>}
\* the ttlMs argument; 0 stands for an argument left out
CacheTtls == {0, CLEANUP_INTERVAL_MS}

CallOf(op, key, st) == [op |-> op, key |-> key, removed |-> DOMAIN store \ DOMAIN st]

\* cache.set(key, value, ttlMs)
CacheSetCall(key, value, ttlMs) ==
  /\ store' = CacheSet(store, key, value, ttlMs, now)
  /\ cCall' = CallOf("set", key, CacheSet(store, key, value, ttlMs, now))
  /\ UNCHANGED <<now, notCache>>

\* cache.get(key)
CacheGetCall(key) ==
  /\ store' = CacheAfterGet(store, key, now)
  /\ cCall' = CallOf("get", key, CacheAfterGet(store, key, now))
  /\ UNCHANGED <<now, notCache>>

\* cache.delete(key)
CacheDeleteCall(key) ==
  /\ store' = Without(store, key)
  /\ cCall' = CallOf("delete", key, Without(store, key))
  /\ UNCHANGED <<now, notCache>>

\* cache.cleanup()
CacheCleanupCall ==
  /\ store' = CacheCleanup(store, now)
  /\ cCall' = CallOf("cleanup", NoKey, CacheCleanup(store, now))
  /\ UNCHANGED <<now, notCache>>

\* the requests of the model
BaseTwoOne == Options("base", <<2, 1>>, 1, "")
BaseOneTwo == Options("base", <<1, 2>>, 1, "")
BaseCustomRpc == Options("base", <<1, 2>>, 1, "custom")
UnknownChain == Options("nochain", <<1>>, 1, "")
BadAndTwice == Options("base", <<LowerCaseOf1, 0, 1>>, 1, "")
InheritedKey == Options("constructor", <<1>>, 1, "custom")
BaseTwoMinutes == Options("base", <<2, 1>>, 2, "")

(* the list entrypoint of agent.ts, in its two versions *)

Digits == <<"0", "1", "2", "3", "4", "5", "6", "7", "8", "9">>
IsDigit(c) == \E i \in 1..Len(Digits) : Digits[i] = c
DigitValue(c) == (CHOOSE i \in 1..Len(Digits) : Digits[i] = c) - 1

RECURSIVE ParseDigits(_, _)
ParseDigits(str, acc) ==
  IF str = <<>> \/ ~IsDigit(Head(str)) THEN acc
  ELSE ParseDigits(Tail(str), 10 * acc + DigitValue(Head(str)))

\* parseInt(str, 10) on a string without white space: an optional sign, then
\* the digits up to the first other character; NaN without a digit
parseInt(str) ==
  LET signed == str # <<>> /\ Head(str) \in {"-", "+"}
      body == IF signed THEN Tail(str) ELSE str
  IN IF body = <<>> \/ ~IsDigit(Head(body)) THEN NaN
     ELSE IF Head(str) = "-" THEN Num(0 - ParseDigits(body, 0))
     ELSE Num(ParseDigits(body, 0))

\* n || fallback: NaN and 0 are falsy
OrDefault(n, fallback) == IF n.nan \/ n.value = 0 THEN fallback ELSE n.value

\* the code of "," in a factories string whose other symbols are addresses
COMMA == 44

RECURSIVE SplitFrom(_, _, _)
SplitFrom(str, piece, out) ==
  IF str = <<>> THEN Append(out, piece)
  ELSE IF Head(str) = COMMA THEN SplitFrom(Tail(str), <<>>, Append(out, piece))
  ELSE SplitFrom(Tail(str), Append(piece, Head(str)), out)

\* input.factories.split(","): the pieces, each the address it spells, or a
\* string that is no address
Split(str) ==
  LET pieces == SplitFrom(str, <<>>, <<>>)
  IN [i \in 1..Len(pieces) |-> IF Len(pieces[i]) = 1 THEN pieces[i][1] ELSE 0]

ListInput(chain, factories, windowMinutes, rpcUrl) ==
  [chain |-> chain, factories |-> factories, window_minutes |-> windowMinutes,
   rpc_url |-> rpcUrl]

\* the input schema of the entrypoint accepts the request
\*   payload-fix: window_minutes a number or a string that parses, in 1..1440,
\*                or absent (default 60)
\*   env-configured: window_minutes a string of one or two characters
Accepts(version, input) ==
  LET w == input.window_minutes
  IN IF version = "envConfigured"
     THEN w.kind = "string" /\ Len(w.chars) >= 1 /\ Len(w.chars) <= 2
     ELSE CASE w.kind = "number" -> w.num >= 1 /\ w.num <= 1440
            [] w.kind = "string" ->
                 /\ ~parseInt(w.chars).nan
                 /\ parseInt(w.chars).value >= 1 /\ parseInt(w.chars).value <= 1440
            [] OTHER -> TRUE

\* the windowMinutes the handler passes to detectNewPairs
\*   payload-fix: (string ? parseInt(window_minutes, 10) : window_minutes) || 60
\*   env-configured: parseInt(input.window_minutes) || 1
HandlerWindow(version, input) ==
  LET w == input.window_minutes
  IN IF version = "envConfigured" THEN OrDefault(parseInt(w.chars), 1)
     ELSE CASE w.kind = "string" -> OrDefault(parseInt(w.chars), 60)
            [] w.kind = "number" -> OrDefault(Num(w.num), 60)
            [] OTHER -> 60

\* the options the handler passes to detectNewPairs
HandlerOptions(version, input) ==
  Options(input.chain,
          IF version = "envConfigured" THEN Split(input.factories) ELSE input.factories,
          HandlerWindow(version, input), input.rpc_url)

WindowChars == {"-", "0", "5", "a"}
ListChains == {"base", "nochain", ""}
ListNumbers == {0, 1, 60, 1440, 1441}

ListInputs(version) ==
  {ListInput(c, f, w, "") :
     c \in ListChains,
     f \in IF version = "envConfigured" THEN {<<2, COMMA, 1>>, <<>>} ELSE {<<2, 1>>, <<>>},
     w \in {WindowString(str) : str \in SeqsUpTo(WindowChars, MaxWindowChars)}
             \cup IF version = "envConfigured" THEN {}
                  ELSE {WindowNumber(n) : n \in ListNumbers} \cup {WindowUndefined}}

ListIdle == lVersion = "off" /\ lInput = <<>> /\ lResponse = NoOutput /\ lPc = "off"

ListInit ==
  /\ lVersion \in {"payloadFix", "envConfigured"}
  /\ lInput \in ListInputs(lVersion)
  /\ lResponse = NoOutput /\ lPc = "received"

\* the framework validates the input against the schema and does not call the
\* handler
ListReject ==
  /\ lPc = "received" /\ ~Accepts(lVersion, lInput)
  /\ lPc' = "rejected"
  /\ UNCHANGED <<lVersion, lInput, lResponse, pipeVars, notCore>>

\* the handler up to its await of detectNewPairs; the payload-fix version
\* checks the chain first, inside its try
ListHandle ==
  /\ lPc = "received" /\ Accepts(lVersion, lInput)
  /\ IF lVersion = "payloadFix" /\ lInput.chain = ""
     THEN /\ lResponse' = FailureOutput("chain is required")
          /\ lPc' = "responded"
          /\ UNCHANGED <<pipeVars, notCore>>
     ELSE /\ Invoke(1, HandlerOptions(lVersion, lInput))
          /\ lPc' = "awaiting"
          /\ UNCHANGED lResponse
  /\ UNCHANGED <<lVersion, lInput>>

\* detectNewPairs settled: the handler returns the output; when it threw, the
\* payload-fix version returns the failure output from its catch and the
\* env-configured version, which has no catch, rejects
ListReturn ==
  /\ lPc = "awaiting" /\ pc[1] \in {"done", "error"}
  /\ IF pc[1] = "done"
     THEN /\ lResponse' = SuccessOutput(lInput.chain, lInput.window_minutes, ret[1].value)
          /\ lPc' = "responded"
     ELSE IF lVersion = "payloadFix"
     THEN /\ lResponse' = FailureOutput(ret[1].error)
          /\ lPc' = "responded"
     ELSE /\ lResponse' = HandlerThrew(ret[1].error)
          /\ lPc' = "threw"
  /\ UNCHANGED <<lVersion, lInput, pipeVars, notCore>>

-----------------------------------------------------------------------------
(* Specifications *)

KeyNext == \E i \in 1..2 : GenerateKey(i)

InitKey ==
  KeyInit /\ DedIdle /\ HoldIdle /\ EnrIdle /\ PipeIdle /\ EstIdle /\ WinIdle /\ CallIdle /\ ListIdle

SpecKey == InitKey /\ [][KeyNext]_vars

DedNext == DedupRespond \/ Deduplicate \/ DedupEnrich

InitDedup ==
  DedInit /\ KeyIdle /\ HoldIdle /\ EnrIdle /\ PipeIdle /\ EstIdle /\ WinIdle /\ CallIdle /\ ListIdle

SpecDedup == InitDedup /\ [][DedNext]_vars

HoldNext == HoldersGetBlockNumber \/ HoldersGetLogs

InitHolders ==
  HoldInit /\ KeyIdle /\ DedIdle /\ EnrIdle /\ PipeIdle /\ EstIdle /\ WinIdle /\ CallIdle /\ ListIdle

SpecHolders == InitHolders /\ [][HoldNext]_vars

LiqNext == EnrichGetPairLiquidity

InitLiquidity ==
  EnrStart(MaxMints) /\ KeyIdle /\ DedIdle /\ HoldIdle /\ PipeIdle /\ EstIdle /\ WinIdle /\ CallIdle /\ ListIdle

SpecLiquidity == InitLiquidity /\ [][LiqNext]_vars

EnrNext == EnrichGetPairLiquidity \/ EnrichGetTokenInfo \/ EnrichGetTopHolders

InitEnrich ==
  EnrStart(MaxEnrichMints) /\ KeyIdle /\ DedIdle /\ HoldIdle /\ PipeIdle /\ EstIdle /\ WinIdle /\ CallIdle /\ ListIdle

SpecEnrich == InitEnrich /\ [][EnrNext]_vars

WinNext == HoldersScanWindow

InitWindow ==
  WinInit /\ KeyIdle /\ DedIdle /\ HoldIdle /\ EnrIdle /\ PipeIdle /\ EstIdle /\ CallIdle
    /\ ListIdle

SpecWindow == InitWindow /\ [][WinNext]_vars

EstNext == Estimate

InitEstimate ==
  EstInit /\ KeyIdle /\ DedIdle /\ HoldIdle /\ EnrIdle /\ PipeIdle /\ ListIdle /\ WinIdle /\ CallIdle

SpecEstimate == InitEstimate /\ [][EstNext]_vars

\* two requests, the sweep, the clock and the chain head; the node may fail the
\* head query
Next ==
  \/ \E r \in Requests : Call(r)
  \/ \E r \in Requests : GetBlockNumber(r)
  \/ \E r \in Requests : ScanFactory(r)
  \/ \E r \in Requests : EnrichPool(r)
  \/ \E r \in Requests : WriteCache(r)
  \/ Cleanup
  \/ Tick
  \/ NewBlock

Init ==
  /\ PipeInit({BaseTwoOne, BaseOneTwo, UnknownChain}, {"getBlockNumber"}, Requests)
  /\ KeyIdle /\ DedIdle /\ HoldIdle /\ EnrIdle /\ EstIdle /\ WinIdle /\ CallIdle /\ ListIdle

Spec == Init /\ [][Next]_vars

\* the same process with the timer of the sweep: setInterval calls
\* cache.cleanup() every 30 s for as long as the process runs, so a sweep that
\* has something to delete is not put off forever
SpecSweep == Init /\ [][Next]_vars /\ WF_vars(Cleanup)

\* two callers of the same chain and factories, one through the chain's default
\* endpoint and one through an endpoint of its own
InitEndpoints ==
  /\ PipeInit({BaseOneTwo, BaseCustomRpc}, {"getBlockNumber"}, Requests)
  /\ KeyIdle /\ DedIdle /\ HoldIdle /\ EnrIdle /\ EstIdle /\ WinIdle /\ CallIdle /\ ListIdle

SpecEndpoints == InitEndpoints /\ [][Next]_vars

\* a direct client of the cache and the clock
CacheNext ==
  \/ \E key \in CacheKeys, value \in CacheValues, ttlMs \in CacheTtls :
       CacheSetCall(key, value, ttlMs)
  \/ \E key \in CacheKeys : CacheGetCall(key)
  \/ \E key \in CacheKeys : CacheDeleteCall(key)
  \/ CacheCleanupCall
  \/ Tick

InitCache ==
  /\ PipeInit({}, {}, {})
  /\ KeyIdle /\ DedIdle /\ HoldIdle /\ EnrIdle /\ EstIdle /\ WinIdle /\ CallIdle /\ ListIdle

SpecCache == InitCache /\ [][CacheNext]_vars

\* one request on a node that answers every call in the end, with a value or
\* with an error: no step of the request waits forever
ReturnsFair ==
  \A r \in Requests :
    /\ WF_vars(GetBlockNumber(r)) /\ WF_vars(ScanFactory(r))
    /\ WF_vars(EnrichPool(r)) /\ WF_vars(WriteCache(r))

\* one request on a node that may fail any call
ScanNext ==
  \/ \E r \in Requests : Call(r)
  \/ \E r \in Requests : GetBlockNumber(r)
  \/ \E r \in Requests : ScanFactory(r)
  \/ \E r \in Requests : EnrichPool(r)
  \/ \E r \in Requests : WriteCache(r)

InitScan ==
  /\ PipeInit({BaseTwoOne, BaseTwoMinutes, BaseCustomRpc, BadAndTwice, UnknownChain,
               InheritedKey},
              {"getBlockNumber", "getLogs", "decode", "getBlock", "enrich"}, {1})
  /\ KeyIdle /\ DedIdle /\ HoldIdle /\ EnrIdle /\ EstIdle /\ WinIdle /\ CallIdle /\ ListIdle

SpecScan == InitScan /\ [][ScanNext]_vars

SpecReturns == InitScan /\ [][ScanNext]_vars /\ ReturnsFair

\* one request to the list entrypoint, in either version of agent.ts
ListNext ==
  \/ ListReject
  \/ ListHandle
  \/ ListReturn
  \/ \E r \in Requests : GetBlockNumber(r)
  \/ \E r \in Requests : ScanFactory(r)
  \/ \E r \in Requests : EnrichPool(r)
  \/ \E r \in Requests : WriteCache(r)

InitList ==
  /\ ListInit
  /\ PipeInit({}, {"getBlockNumber", "enrich"}, {1})
  /\ KeyIdle /\ DedIdle /\ HoldIdle /\ EnrIdle /\ EstIdle /\ WinIdle /\ CallIdle

SpecList == InitList /\ [][ListNext]_vars

-----------------------------------------------------------------------------
(* Claims *)

\* C2: Cache.generateKey does not depend on the order of the factories array:
\* two calls with the same chain and block range whose arrays are permutations
\* of each other return the same key.
C2_KeyOrderIndependent ==
  (kPc = <<"done", "done">> /\ IsPermutation(kIn[1], kIn[2])) => kKey[1] = kKey[2]

C2_Witness ==
  /\ kPc = <<"done", "done">>
  /\ kIn[1] = <<3, 1, 2>> /\ kIn[2] = <<2, 3, 1>>
  /\ kKey[1] = kKey[2]

\* the index of the first record of pairs with this address
FirstIndex(pairs, a) ==
  CHOOSE i \in 1..Len(pairs) :
    /\ pairs[i].pair_address = a
    /\ \A j \in 1..(i - 1) : pairs[j].pair_address # a


\* C4: deduplicatePairs returns each pool address exactly once, exactly the
\* distinct addresses of its input, each as its first occurrence, in first-seen
\* order; so pair_address is unique in the enriched result.
C4_Deduplication ==
  /\ dPc \in {"enrich", "return", "done"} =>
       /\ \A i, j \in 1..Len(dUnique) :
            dUnique[i].pair_address = dUnique[j].pair_address => i = j
       /\ Addresses(dUnique) = Addresses(dAllPairs)
       /\ Len(dUnique) = Cardinality(Addresses(dAllPairs))
       /\ \A i \in 1..Len(dUnique) :
            dUnique[i] = dAllPairs[FirstIndex(dAllPairs, dUnique[i].pair_address)]
       /\ \A i, j \in 1..Len(dUnique) :
            i < j => FirstIndex(dAllPairs, dUnique[i].pair_address)
                       < FirstIndex(dAllPairs, dUnique[j].pair_address)
  /\ dPc \in {"return", "done"} =>
       /\ Len(dEnriched) = Len(dUnique)
       /\ \A i \in 1..Len(dEnriched) : dEnriched[i].pair_address = dUnique[i].pair_address
       /\ \A i, j \in 1..Len(dEnriched) :
            dEnriched[i].pair_address = dEnriched[j].pair_address => i = j

\* four records, two addresses, the duplicates coming from another factory
C4_Witness ==
  /\ dPc = "done"
  /\ Len(dAllPairs) = 4 /\ Len(dUnique) = 2 /\ Len(dEnriched) = 2
  /\ dAllPairs[1].pair_address = 2 /\ dAllPairs[2].pair_address = 1
  /\ dAllPairs[3].pair_address = 2 /\ dAllPairs[3].factory # dAllPairs[1].factory
  /\ dUnique[1] = dAllPairs[1] /\ dUnique[2] = dAllPairs[2]

\* the mint-log retrieval of getPairLiquidity failed
MintRetrievalFailed ==
  \/ v2Logs.status = "rejected" /\ v3Logs.status = "rejected"
  \/ ~mintDecodes

\* the first log getPairLiquidity decodes, if any
MintDecoded ==
  IF v2Logs.status = "fulfilled" /\ Len(v2Logs.value) > 0 THEN <<v2Logs.value[1]>>
  ELSE IF v3Logs.status = "fulfilled" /\ Len(v3Logs.value) > 0 THEN <<v3Logs.value[1]>>
  ELSE <<>>

\* C6: a failed mint-log retrieval gives init_liquidity "Unable to fetch";
\* "No liquidity" is reported only when the queries succeeded and found no
\* mint, or a mint of zero amounts.
C6_FailureDistinguished ==
  ePc = "done" =>
    /\ MintRetrievalFailed => eOut[1].init_liquidity = UNABLE_TO_FETCH
    /\ eOut[1].init_liquidity = NO_LIQUIDITY =>
         /\ v2Logs.status = "fulfilled" /\ v3Logs.status = "fulfilled" /\ mintDecodes
         /\ \/ MintDecoded = <<>>
            \/ MintDecoded[1].amount0 = 0 /\ MintDecoded[1].amount1 = 0

V2Retrieved == v2Logs.status = "fulfilled" /\ Len(v2Logs.value) > 0
V3Retrieved == v3Logs.status = "fulfilled" /\ Len(v3Logs.value) > 0

\* C7: when a V2-shaped mint was retrieved, getPairLiquidity returns its
\* amounts, also when a V3-shaped mint was retrieved too; the V3-shaped mint
\* is used only when no V2-shaped mint was retrieved.
C7_V2Preferred ==
  (ePc = "tokens" /\ mintDecodes) =>
    /\ V2Retrieved =>
         liquidity = LiquidityInfo(v2Logs.value[1].amount0, v2Logs.value[1].amount1)
    /\ (V3Retrieved /\ ~V2Retrieved) =>
         liquidity = LiquidityInfo(v3Logs.value[1].amount0, v3Logs.value[1].amount1)

C7_Witness ==
  /\ ePc = "tokens" /\ mintDecodes
  /\ V2Retrieved /\ V3Retrieved
  /\ v3Logs.value[1].block < v2Logs.value[1].block
  /\ v2Logs.value[1].amount0 = 300 /\ v3Logs.value[1].amount0 = 500
  /\ liquidity = LiquidityInfo(300, 0)

\* the places in the chain's log order of the pool's mints of one shape that
\* lie in the scan window
MintsInWindow(shape) ==
  {i \in 1..Len(mints) :
     /\ mints[i].shape = shape
     /\ ePair.block_number <= mints[i].block
     /\ mints[i].block <= ePair.block_number + MINT_SCAN_BLOCKS}

EarliestMint(shape) ==
  CHOOSE i \in MintsInWindow(shape) : \A j \in MintsInWindow(shape) : i <= j

\* the shape whose mint getPairLiquidity used
UsedShape ==
  IF V2Retrieved THEN "v2" ELSE IF V3Retrieved THEN "v3" ELSE "none"

\* C8: the reserves returned are the amounts of the earliest mint of the used
\* shape in the scan window; the later mints of the window do not count.
C8_FirstMintOnly ==
  (ePc = "tokens" /\ mintDecodes /\ UsedShape # "none") =>
    /\ MintsInWindow(UsedShape) # {}
    /\ liquidity = LiquidityInfo(mints[EarliestMint(UsedShape)].amount0,
                                 mints[EarliestMint(UsedShape)].amount1)

\* mints at b, b+2 and b+5: the amounts of the mint at b
C8_Witness ==
  /\ ePc = "tokens" /\ mintDecodes /\ UsedShape = "v2"
  /\ mints = <<MintLog("v2", CreationBlock, 500, 700),
               MintLog("v2", CreationBlock + 2, 300, 0),
               MintLog("v2", CreationBlock + 5, 0, 0)>>
  /\ liquidity = LiquidityInfo(500, 700)

RECURSIVE SumTo(_, _)
SumTo(logs, a) ==
  IF logs = <<>> THEN 0
  ELSE (IF Head(logs).to = a THEN Head(logs).value ELSE 0) + SumTo(Tail(logs), a)

RECURSIVE SumFrom(_, _)
SumFrom(logs, a) ==
  IF logs = <<>> THEN 0
  ELSE (IF Head(logs).from = a THEN Head(logs).value ELSE 0) + SumFrom(Tail(logs), a)

Touched(logs) == {logs[i].from : i \in 1..Len(logs)} \cup {logs[i].to : i \in 1..Len(logs)}

\* C9: after the replay every non-zero address that occurs in a log holds the
\* sum of the values sent to it minus the sum of the values it sent, the zero
\* address is not in the map, and mint(0->A,100), transfer(A->B,40) gives
\* A=60, B=40 and the holders [A, B].
C9_Replay ==
  hPc = "done" =>
    /\ ~MapHas(balances, ZERO_ADDRESS)
    /\ \A a \in HolderAddrs :
         /\ MapHas(balances, a) <=> a \in Touched(hLogs)
         /\ MapGet(balances, a) = SumTo(hLogs, a) - SumFrom(hLogs, a)
    /\ \A i, j \in 1..Len(balances) : balances[i].address = balances[j].address => i = j
    /\ (hLogs = <<TransferLog(ZERO_ADDRESS, 1, 100), TransferLog(1, 2, 40)>> /\ hLimit >= 2) =>
         /\ balances = <<[address |-> 1, balance |-> 60], [address |-> 2, balance |-> 40]>>
         /\ topHolders = <<1, 2>>

C9_Witness ==
  /\ hPc = "done"
  /\ hLogs = <<TransferLog(ZERO_ADDRESS, 1, 100), TransferLog(1, 2, 40)>>
  /\ hLimit = TOP_HOLDERS_LIMIT
  /\ MapGet(balances, 1) = 60 /\ MapGet(balances, 2) = 40
  /\ topHolders = <<1, 2>>

PositiveAddrs == {a \in HolderAddrs : MapGet(balances, a) > 0}

Min(a, b) == IF a < b THEN a ELSE b

\* C10: top_holders holds only addresses of strictly positive replayed
\* balance, in non-increasing order of balance, min(limit, number of
\* positive-balance addresses) of them, and leaves out no address with a
\* larger balance than one it holds.
C10_Ranking ==
  hPc = "done" =>
    /\ \A i \in 1..Len(topHolders) : MapGet(balances, topHolders[i]) > 0
    /\ \A i, j \in 1..Len(topHolders) :
         i < j => MapGet(balances, topHolders[i]) >= MapGet(balances, topHolders[j])
    /\ Len(topHolders) = Min(hLimit, Cardinality(PositiveAddrs))
    /\ \A a \in PositiveAddrs \ Range(topHolders) :
         \A i \in 1..Len(topHolders) : MapGet(balances, a) <= MapGet(balances, topHolders[i])

\* a truncated ranking next to a holder of negative balance
C10_Witness ==
  /\ hPc = "done"
  /\ Len(topHolders) = 1 /\ Cardinality(PositiveAddrs) = 2
  /\ \E a \in HolderAddrs : MapHas(balances, a) /\ MapGet(balances, a) <= 0

(* Claims about detectNewPairs and the cache *)

\* a request that ran the pipeline to its end and wrote its result
Wrote(q) == pc[q] = "done" /\ cachedResult[q] = "miss"

\* the step in which request r gets the head and looks the cache up
Lookup(r) == pc[r] = "getBlockNumber" /\ pc'[r] \notin {"getBlockNumber", "error"}

SameRequest(o1, o2) ==
  /\ o1.chain = o2.chain /\ Range(o1.factories) = Range(o2.factories)
  /\ o1.windowMinutes = o2.windowMinutes /\ o1.rpcUrl = o2.rpcUrl

C3_CacheValidity ==
  /\ [](\A k \in DOMAIN store : store[k].ttl = 60 * 1000)
  /\ [][\A r \in Requests :
          Lookup(r) =>
            LET k == cacheKey'[r]
            IN /\ cachedResult'[r] = "hit" =>
                    /\ k \in DOMAIN store
                    /\ now - store[k].timestamp <= store[k].ttl
                    /\ ret'[r] = Returned(store[k].data, now)
               /\ (k \in DOMAIN store /\ now - store[k].timestamp > store[k].ttl) =>
                    /\ cachedResult'[r] = "miss"
                    /\ k \notin DOMAIN store']_vars

\* a hit on an entry whose age is exactly its ttl, while the other request
\* found its entry expired
C3_Witness ==
  \E r \in Requests :
    /\ pc[r] = "done" /\ cachedResult[r] = "hit"
    /\ cacheKey[r] \in DOMAIN store
    /\ now - store[cacheKey[r]].timestamp = store[cacheKey[r]].ttl

\* the pools a factory's fulfilled queries returned and the loop parsed
Discovered(s) == Pools(LogsOf(s.v2) \o LogsOf(s.v3)) \ s.bad

\* the iteration of the factory loop failed: the address is invalid, or a
\* creation-log query was rejected
FactoryFailed(s) == ~s.valid \/ s.v2 = Rejected \/ s.v3 = Rejected

\* C5: whatever fails for a factory (an invalid address, a rejected or timed
\* out query), the request is not aborted, every factory of the request is
\* still scanned, and every pool discovered from any factory is in the output.
C5_FailureIsolation ==
  \A r \in Requests :
    /\ pc[r] = "error" => scanned[r] = <<>>
    /\ Wrote(r) =>
         /\ ret[r].kind = "value"
         /\ Len(scanned[r]) = Len(options[r].factories)
         /\ \A i \in 1..Len(scanned[r]) :
              /\ scanned[r][i].factory = options[r].factories[i]
              /\ scanned[r][i].valid =>
                   scanned[r][i].v2 # NotCalled /\ scanned[r][i].v3 # NotCalled
              /\ Discovered(scanned[r][i]) \subseteq Addresses(ret[r].value)

\* factory X failed, a factory Y scanned after it discovered a pool, and the
\* pool is in the output
C5_Witness ==
  \E r \in Requests :
    /\ Wrote(r)
    /\ \E i, j \in 1..Len(scanned[r]) :
         /\ i < j /\ FactoryFailed(scanned[r][i])
         /\ Discovered(scanned[r][i]) = {}
         /\ scanned[r][j].factory # scanned[r][i].factory
         /\ Discovered(scanned[r][j]) # {}
         /\ Discovered(scanned[r][j]) \subseteq Addresses(ret[r].value)


(* Claims C11 to C20 *)

InitLiquidityTexts == {"formatted", "No liquidity", "Unable to fetch", "Unknown"}

\* C11: whatever fails while the pools are enriched (the mint queries, the
\* metadata reads, the holder queries, in any combination per pool),
\* enrichPairData returns one record per deduplicated pool, in the same order
\* and with the same pair_address, each with an init_liquidity that is a
\* formatted string or a sentinel and with a top_holders list; and
\* total_pairs_found is the number of distinct pools discovered.
C11_EnrichmentKeepsPools ==
  /\ dPc \in {"return", "done"} =>
       /\ Len(dEnriched) = Len(dUnique)
       /\ \A i \in 1..Len(dEnriched) :
            /\ dEnriched[i].pair_address = dUnique[i].pair_address
            /\ {"init_liquidity", "top_holders"} \subseteq DOMAIN dEnriched[i]
            /\ dEnriched[i].init_liquidity.text \in InitLiquidityTexts
            /\ DOMAIN dEnriched[i].top_holders = 1..Len(dEnriched[i].top_holders)
  /\ dPc = "done" =>
       /\ dResponse.success /\ dResponse.pairs = dEnriched
       /\ dResponse.total_pairs_found = Cardinality(Addresses(dAllPairs))

\* three pools, found four times; pool 1 has a mint and holders on the chain,
\* but every call made for it failed, and its record is still returned
C11_Witness ==
  /\ dPc = "done" /\ Len(dAllPairs) = 4 /\ dResponse.total_pairs_found = 3
  /\ \E j \in 1..Len(dEnriched) :
       /\ dEnriched[j].pair_address = 1
       /\ dEnriched[j].init_liquidity = NO_LIQUIDITY
       /\ dEnriched[j].top_holders = <<>>


\* C12: estimateBlocksForTimeWindow(chain, windowMinutes) is
\* floor(windowMinutes * 60 / blockTime) with the registry block time of the
\* chain, whatever the case of its letters, and floor(windowMinutes * 60 / 12)
\* for every chain identifier the registry does not hold.
C12_BlockEstimate ==
  xPc = "done" =>
    /\ ~xBlocks.nan
    /\ xChain \in RegistryChains =>
         /\ xBlocks.value * BlockTimeMs(xChain) <= xWindow * 60 * 1000
         /\ xWindow * 60 * 1000 < (xBlocks.value + 1) * BlockTimeMs(xChain)
    /\ xChain \in {"base", "Base", "BASE"} => xBlocks.value = xWindow * 30
    /\ xChain \in {"ethereum", "Ethereum"} => xBlocks.value = xWindow * 5
    /\ xChain = "arbitrum" => xBlocks.value = xWindow * 240
    /\ xChain = "bsc" => xBlocks.value = xWindow * 20
    /\ ToLowerCase(xChain) \notin RegistryChains => xBlocks.value = xWindow * 5


\* C13: a failure of detectNewPairs (the head query fails, no endpoint is
\* configured) reaches the caller of the list entrypoint as an output with
\* success = false and a message, never as a thrown fault; every response says
\* whether the request succeeded.
C13_StructuredFailure ==
  lPc \in {"responded", "threw"} =>
    /\ lResponse.kind = "output"
    /\ pc[1] = "error" => (~lResponse.success /\ lResponse.error # "")
    /\ pc[1] = "done" => lResponse.success

\* C16: the windowMinutes the list entrypoint passes to detectNewPairs is an
\* integer in [1, 1440] for every input the entrypoint accepts.
C16_WindowInRange ==
  lPc \in {"awaiting", "responded", "threw"} /\ pc[1] # "idle" =>
    options[1].windowMinutes >= 1 /\ options[1].windowMinutes <= 1440

\* no rpcUrl in the request and no default RPC for the chain in the registry
NoEndpoint(o) == o.rpcUrl = "" /\ ToLowerCase(o.chain) \notin RegistryChains

\* C14: when the request has no rpcUrl and the registry has no default RPC for
\* the chain, detectNewPairs throws an error whose message names the chain; it
\* has issued no RPC query, has not built a cache key or looked the cache up,
\* and the step that throws leaves the cache as it was.
C14_ConfigurationError ==
  /\ [](\A r \in Requests :
          (pc[r] \notin {"idle", "off"} /\ NoEndpoint(options[r])) =>
            /\ pc[r] = "error"
            /\ ret[r] = Thrown("No RPC endpoint available for chain", options[r].chain,
                               calledAt[r])
            /\ rpcCalls[r] = NoCalls
            /\ cacheKey[r] = NoKey /\ cachedResult[r] = "none"
            /\ scanned[r] = <<>>)
  /\ [][\A r \in Requests :
          (pc[r] = "idle" /\ pc'[r] # "idle" /\ NoEndpoint(options'[r])) =>
            store' = store]_vars

\* a request for a chain that is not in the registry, without rpcUrl, ended
\* with the error that names the chain
C14_Witness ==
  \E r \in Requests :
    /\ pc[r] = "error" /\ options[r] = UnknownChain
    /\ ret[r].kind = "error" /\ ret[r].chain = "nochain"
    /\ rpcCalls[r] = NoCalls

\* the scan of factory f by request r
ScanOf(r, f) == scanned[r][CHOOSE j \in 1..Len(scanned[r]) : scanned[r][j].factory = f]

\* the records a scan collected: those of the V2 query, then those of the V3
\* query, each in log order
Collected(s) ==
  ParseAll(LogsOf(s.v2), getAddress(s.factory), s.bad)
    \o ParseAll(LogsOf(s.v3), getAddress(s.factory), s.bad)

RECURSIVE InOrder(_, _)
InOrder(r, order) ==
  IF order = <<>> THEN <<>>
  ELSE Collected(ScanOf(r, Head(order))) \o InOrder(r, Tail(order))

AddressList(pairs) == [i \in 1..Len(pairs) |-> pairs[i].pair_address]

\* C15: the output of a request that scanned is in discovery order after
\* deduplication: the pools grouped by factory in the order in which the
\* request supplied the factories, within a factory the V2 records before the
\* V3 records, each group in log order.
C15_SuppliedOrder ==
  \A r \in Requests :
    Wrote(r) =>
      AddressList(ret[r].value) = AddressList(deduplicatePairs(InOrder(r, supplied[r])))

\* the steps of detectNewPairs that may follow one another, by the position of
\* the request: the head query resolves the range and checks the cache, the
\* scan ends with the deduplication, the write returns
StepOrder ==
  {<<"idle", "getBlockNumber">>, <<"idle", "error">>,
   <<"getBlockNumber", "error">>, <<"getBlockNumber", "done">>,
   <<"getBlockNumber", "scan">>, <<"getBlockNumber", "write">>,
   <<"scan", "scan">>, <<"scan", "enrich">>, <<"scan", "write">>,
   <<"enrich", "enrich">>, <<"enrich", "write">>, <<"write", "done">>}

\* C17: every request takes its steps in the order resolve the block range,
\* check the cache, scan, deduplicate, enrich each pool, write the cache,
\* return. A request that hits the cache returns without a scan, a
\* deduplication, an enrichment or a cache write; no getLogs query is issued
\* before the cache check; the cache is written only by a request that has
\* enriched every pool of its deduplicated list, with the enriched list.
C17_StepOrder ==
  /\ [](\A r \in Requests :
          /\ cachedResult[r] = "none" =>
               rpcCalls[r].getLogs = 0 /\ scanned[r] = <<>> /\ enrichedPairs[r] = <<>>
          /\ cachedResult[r] = "hit" =>
               /\ pc[r] = "done" /\ ret[r].kind = "value"
               /\ scanned[r] = <<>> /\ allPairs[r] = <<>> /\ uniquePairs[r] = <<>>
               /\ enrichedPairs[r] = <<>>
               /\ rpcCalls[r] = Calls(1, 0, 0, 0)
          /\ pc[r] \in {"scan", "enrich", "write"} => cachedResult[r] = "miss"
          /\ pc[r] = "scan" => enrichedPairs[r] = <<>>
          /\ pc[r] = "enrich" =>
               /\ Len(scanned[r]) = Len(options[r].factories)
               /\ uniquePairs[r] = deduplicatePairs(allPairs[r])
               /\ Len(enrichedPairs[r]) < Len(uniquePairs[r]))
  /\ [][\A r \in Requests :
          /\ pc'[r] # pc[r] => <<pc[r], pc'[r]>> \in StepOrder
          /\ (Lookup(r) /\ cachedResult'[r] = "hit") => store' = store]_vars
  /\ [][\A k \in DOMAIN store' :
          (k \notin DOMAIN store \/ store'[k] # store[k]) =>
            \E r \in Requests :
              /\ pc[r] = "write" /\ pc'[r] = "done" /\ cacheKey[r] = k
              /\ uniquePairs[r] = deduplicatePairs(allPairs[r])
              /\ AddressList(enrichedPairs[r]) = AddressList(uniquePairs[r])
              /\ store'[k].data = enrichedPairs[r]
              /\ ret'[r] = Returned(enrichedPairs[r], now)]_vars

\* one request went through every step with two pools and wrote the cache, and
\* another returned its result from the cache
C17_Witness ==
  \E r, q \in Requests :
    /\ Wrote(q) /\ Len(scanned[q]) = 2 /\ Len(ret[q].value) = 2
    /\ rpcCalls[q].getLogs > 0
    /\ pc[r] = "done" /\ cachedResult[r] = "hit" /\ ret[r].value = ret[q].value

\* the records of the logs of a fulfilled query of scan s that were parsed
ParsedOf(s, settled) ==
  {parseLog(settled.value[i], getAddress(s.factory)) :
     i \in {j \in 1..Len(settled.value) : settled.value[j].pool \notin s.bad}}

\* C18: within one factory, when the query of one event shape is rejected and
\* the query of the other shape is fulfilled, every record parsed from the
\* other shape's logs is collected, and is in the output of the request.
C18_ShapeIsolation ==
  \A r \in Requests :
    \A i \in 1..Len(scanned[r]) :
      LET s == scanned[r][i]
          Kept(settled) ==
            \A rec \in ParsedOf(s, settled) :
              /\ rec \in Range(allPairs[r])
              /\ Wrote(r) => rec.pair_address \in Addresses(ret[r].value)
      IN /\ (s.v2.status = "rejected" /\ s.v3.status = "fulfilled") => Kept(s.v3)
         /\ (s.v3.status = "rejected" /\ s.v2.status = "fulfilled") => Kept(s.v2)

\* the V2 query of one scan and the V3 query of another scan of the same
\* factory were rejected, and the pools of the two fulfilled queries are in
\* the output
C18_Witness ==
  \E r \in Requests :
    /\ Wrote(r)
    /\ \E i, j \in 1..Len(scanned[r]) :
         /\ scanned[r][i].v2.status = "rejected" /\ scanned[r][i].v3.status = "fulfilled"
         /\ scanned[r][j].v3.status = "rejected" /\ scanned[r][j].v2.status = "fulfilled"
         /\ ParsedOf(scanned[r][i], scanned[r][i].v3) # {}
         /\ ParsedOf(scanned[r][j], scanned[r][j].v2) # {}
         /\ Addresses(ret[r].value) = {1, 2}

\* the number of logs of scan s that were parsed
GoodLogs(s) == Cardinality(ParsedOf(s, s.v2)) + Cardinality(ParsedOf(s, s.v3))

RECURSIVE SumGood(_)
SumGood(scans) == IF scans = <<>> THEN 0 ELSE GoodLogs(Head(scans)) + SumGood(Tail(scans))

\* C19: when a creation log fails to parse (it does not decode, or the block
\* of its timestamp cannot be fetched), only that log is skipped: the other
\* logs of the same query, of the other event shape and of the other factories
\* are parsed and collected, the request does not abort and scans every
\* factory, and every parsed pool is in its output.
C19_LogIsolation ==
  \A r \in Requests :
    /\ Len(allPairs[r]) = SumGood(scanned[r])
    /\ \A i \in 1..Len(scanned[r]) :
         scanned[r][i].bad # {} =>
           /\ pc[r] # "error"
           /\ \A rec \in ParsedOf(scanned[r][i], scanned[r][i].v2)
                           \cup ParsedOf(scanned[r][i], scanned[r][i].v3) :
                rec \in Range(allPairs[r])
           /\ pc[r] \in {"enrich", "write", "done"} =>
                /\ Len(scanned[r]) = Len(options[r].factories)
                /\ \A j \in 1..Len(scanned[r]) :
                     \A rec \in ParsedOf(scanned[r][j], scanned[r][j].v2)
                                  \cup ParsedOf(scanned[r][j], scanned[r][j].v3) :
                       /\ rec \in Range(allPairs[r])
                       /\ rec.pair_address \in Addresses(uniquePairs[r])
                       /\ Wrote(r) => rec.pair_address \in Addresses(ret[r].value)

\* the first of the two V2 logs of a factory failed to parse; the second, and
\* the V2 and V3 pools of the other factory, are in the output
C19_Witness ==
  \E r \in Requests :
    /\ Wrote(r)
    /\ \E i \in 1..Len(scanned[r]) :
         /\ Pools(LogsOf(scanned[r][i].v2)) = {3, 4}
         /\ scanned[r][i].bad = {3}
    /\ Addresses(ret[r].value) = {1, 2, 4}

\* the amount of a reserve as the string shows it, in hundredths, for the
\* decimals the reads of the model return: 2 decimals show the reserve itself,
\* the default of 18 decimals shows 0.00
ShownAmount(reserve, info) ==
  IF info.hasDecimals /\ info.decimals = 2 THEN reserve ELSE 0

ShownSymbol(info, placeholder) ==
  IF info.hasSymbol THEN info.symbol ELSE placeholder

OwnDecimals(info) == IF info.hasDecimals THEN info.decimals ELSE 18

\* C21: the decimal count used to scale each raw amount is the token's own
\* decimals whenever the decimals read succeeded, 0 included, and 18 only
\* when the decimals are unknown.
C21_OwnDecimals ==
  (ePc = "done" /\ eOut[1].init_liquidity.text = "formatted") =>
    /\ eOut[1].init_liquidity.amt0 = ToFixed2(liquidity.reserve0, OwnDecimals(tokenInfos[1]))
    /\ eOut[1].init_liquidity.amt1 = ToFixed2(liquidity.reserve1, OwnDecimals(tokenInfos[2]))

Max(a, b) == IF a > b THEN a ELSE b

\* C22: for every creation block and head, getTopHolders queries the transfers
\* over [scanFrom, head] with scanFrom = max(creationBlock, head - 1000):
\* scanFrom is never before the creation block, the window never reaches more
\* than 1000 blocks before the head, and the logs replayed are those of the
\* chain in that window.
C22_HolderWindow ==
  wPc = "replay" =>
    /\ wFrom = Max(wCreation, wHead - 1000)
    /\ wFrom >= wCreation /\ wHead - wFrom <= 1000
    /\ \A b \in Range(WinTransferBlocks) :
         b \in Range(wLogs) <=> (wCreation <= b /\ wHead - 1000 <= b /\ b <= wHead)

\* a pool created more than 1000 blocks before the head: the scan starts 1000
\* blocks before the head and leaves out the older transfers of the pool
C22_Witness ==
  /\ wPc = "replay" /\ wCreation = 500 /\ wHead = 3000
  /\ wFrom = 2000 /\ wLogs = <<2000, 2001, 2500, 3000>>

\* the init_liquidity values a pool gets when its holder queries are answered,
\* over the outcomes of the other calls
LiquidityWithHolders(pair) ==
  {formatInitialLiquidity(LiquidityOf(rpc.v2, rpc.v3, rpc.decodes),
                          [i \in 1..2 |->
                             TokenInfo(pair.tokens[i], rpc.meta[i].name, rpc.meta[i].symbol,
                                       rpc.meta[i].decimals)]) :
     rpc \in {c \in RpcCombinations(pair) : c.holdersOk}}

\* C23: when the head query, the Transfer query or the decoding of a transfer
\* fails for a pool, getTopHolders returns the empty list: the pool is in the
\* output with top_holders = [] and the init_liquidity it has when the holder
\* queries are answered, and the records of the other pools are as they were.
C23_HolderFailure ==
  /\ [](dPc \in {"enrich", "return", "done"} =>
          /\ Len(dHoldersOk) = Len(dEnriched)
          /\ \A i \in 1..Len(dEnriched) :
               ~dHoldersOk[i] =>
                 /\ dEnriched[i].pair_address = dUnique[i].pair_address
                 /\ dEnriched[i].top_holders = <<>>
                 /\ dEnriched[i].init_liquidity \in LiquidityWithHolders(dUnique[i])
                 /\ dEnriched[i].init_liquidity # UNABLE_TO_FETCH)
  /\ [][dPc = "enrich" =>
          /\ Len(dEnriched') = Len(dEnriched) + 1
          /\ SubSeq(dEnriched', 1, Len(dEnriched)) = dEnriched]_vars
  /\ [](dPc = "done" => dResponse.success /\ dResponse.pairs = dEnriched)

\* the holder queries of pool 1 failed while its mint and its metadata were
\* read, and those of another pool were answered: pool 1 is returned with its
\* formatted liquidity and no holders
C23_Witness ==
  /\ dPc = "done" /\ Len(dEnriched) >= 2
  /\ \E i, j \in 1..Len(dEnriched) :
       /\ i < j
       /\ dEnriched[i].pair_address = 1 /\ ~dHoldersOk[i]
       /\ dEnriched[i].init_liquidity = Formatted(500, "AAA", 700, "BBB")
       /\ dEnriched[i].top_holders = <<>>
       /\ dHoldersOk[j]

\* C24: whichever of the three reads (name, symbol, decimals) of a token fail,
\* getTokenInfo returns a TokenInfo with the token's address, with the value
\* read in every field whose read succeeded and with every field whose read
\* failed unset; each field is read once per token, and the pool is enriched
\* whatever failed.
C24_MetadataFields ==
  /\ Len(eReads) = Len(tokenInfos)
  /\ \A i \in 1..Len(tokenInfos) :
       /\ tokenInfos[i].address = ePair.tokens[i]
       /\ DOMAIN eReads[i] = {"name", "symbol", "decimals"}
       /\ tokenInfos[i].hasName <=> eReads[i].name.status = "fulfilled"
       /\ tokenInfos[i].hasSymbol <=> eReads[i].symbol.status = "fulfilled"
       /\ tokenInfos[i].hasDecimals <=> eReads[i].decimals.status = "fulfilled"
       /\ tokenInfos[i].hasName => tokenInfos[i].name = eReads[i].name.value
       /\ tokenInfos[i].hasSymbol => tokenInfos[i].symbol = eReads[i].symbol.value
       /\ tokenInfos[i].hasDecimals => tokenInfos[i].decimals = eReads[i].decimals.value
  /\ ePc \in {"holders", "done"} => Len(tokenInfos) = 2
  /\ ePc = "done" =>
       /\ Len(eOut) = 1 /\ eOut[1].pair_address = ePair.pair_address
       /\ eOut[1].tokens = ePair.tokens
       /\ eOut[1].init_liquidity # UNABLE_TO_FETCH

\* the symbol read of token0 failed while its name and decimals were read,
\* every read of token1 failed, and the pool was enriched
C24_Witness ==
  /\ ePc = "done"
  /\ tokenInfos[1] = [address |-> 11, hasName |-> TRUE, name |-> "Token",
                      hasSymbol |-> FALSE, symbol |-> "",
                      hasDecimals |-> TRUE, decimals |-> 2]
  /\ ~tokenInfos[2].hasName /\ ~tokenInfos[2].hasSymbol /\ ~tokenInfos[2].hasDecimals
  /\ eOut[1].init_liquidity = Formatted(500, "TOKEN0", 0, "TOKEN1")

\* the creation logs of the chain, over the factories of the model
AllCreations == ChainCreations(1) \o ChainCreations(2)

\* the tokens of the creation log of a pool, in the order of the event
EventTokens(pool) ==
  LET l == AllCreations[CHOOSE i \in 1..Len(AllCreations) : AllCreations[i].pool = pool]
  IN <<l.token0, l.token1>>

\* C25: in every scanned record tokens[0] is the token0 and tokens[1] the
\* token1 of the creation event, and deduplication and enrichment return the
\* same two addresses in the same order.
C25_TokenOrder ==
  \A r \in Requests :
    /\ \A i \in 1..Len(allPairs[r]) :
         allPairs[r][i].tokens = EventTokens(allPairs[r][i].pair_address)
    /\ \A i \in 1..Len(uniquePairs[r]) :
         uniquePairs[r][i].tokens = EventTokens(uniquePairs[r][i].pair_address)
    /\ \A i \in 1..Len(enrichedPairs[r]) :
         enrichedPairs[r][i].tokens = EventTokens(enrichedPairs[r][i].pair_address)
    /\ Wrote(r) =>
         \A i \in 1..Len(ret[r].value) :
           ret[r].value[i].tokens = EventTokens(ret[r].value[i].pair_address)

\* a pool whose event names the larger address as token0 is returned with its
\* tokens in the order of the event
C25_Witness ==
  \E r \in Requests :
    /\ Wrote(r)
    /\ \E i \in 1..Len(ret[r].value) :
         /\ ret[r].value[i].pair_address = 4
         /\ ret[r].value[i].tokens = <<13, 11>>

\* the cache keys of the requests of the run
SweepKeys ==
  {generateKey("base", <<1, 2>>, h - 30, h) : h \in InitialHead..(InitialHead + MaxNewBlocks)}

\* C26: with the periodic sweep running, every cache entry whose age exceeds
\* its ttl is eventually gone from the store, deleted by a read of its key or
\* by the sweep (or replaced by a newer entry under the same key).
C26_ExpiredRemoved ==
  /\ [](DOMAIN store \subseteq SweepKeys)
  /\ \A k \in SweepKeys :
       (k \in DOMAIN store /\ now - store[k].timestamp > store[k].ttl)
         ~> (k \notin DOMAIN store \/ now - store[k].timestamp <= store[k].ttl)

\* a request wrote an entry more than 60 s ago, no other request has looked
\* the cache up, and the store is empty: the sweep deleted the entry
C26_Witness ==
  \E r \in Requests :
    /\ Wrote(r) /\ now - ret[r].at > CACHE_TTL_MS
    /\ \A q \in Requests \ {r} : pc[q] = "idle"
    /\ store = EmptyStore

\* the fields of a PairInfo, and the fields enrichPairData adds
PairInfoFields == {"pair_address", "tokens", "block_number", "factory", "pool_type"}
EnrichmentFields == {"init_liquidity", "top_holders"}

\* C27: enrichPairData never writes to a record it was given: while and after
\* the pools are enriched the array it was passed holds the records it held
\* when it was called, none of them with an enrichment field, and every
\* returned record is another record, the pool's fields with init_liquidity
\* and top_holders added.
C27_InputNotMutated ==
  /\ [](dPc \in {"enrich", "return", "done"} =>
          /\ dUnique = deduplicatePairs(dAllPairs)
          /\ \A i \in 1..Len(dUnique) : DOMAIN dUnique[i] = PairInfoFields
          /\ \A i \in 1..Len(dEnriched) :
               /\ DOMAIN dEnriched[i] = PairInfoFields \cup EnrichmentFields
               /\ dEnriched[i] # dUnique[i]
               /\ \A f \in PairInfoFields \ {"tokens"} : dEnriched[i][f] = dUnique[i][f])
  /\ [][dUnique' # dUnique => dPc = "dedup"]_vars

\* two pools were enriched and returned, and the array passed to enrichPairData
\* still holds the two records without enrichment fields
C27_Witness ==
  /\ dPc = "done" /\ Len(dUnique) = 2 /\ Len(dEnriched) = 2
  /\ dResponse.pairs = dEnriched
  /\ \A i \in 1..2 :
       /\ "init_liquidity" \in DOMAIN dEnriched[i]
       /\ "init_liquidity" \notin DOMAIN dUnique[i]

\* C28: Cache.generateKey leaves the array it is passed as it was: after the
\* call the caller's array has the elements it had, in the order it had them.
C28_ArrayUnchanged ==
  \A i \in DOMAIN kPc : kPc[i] = "done" => kArr[i] = kIn[i]

\* C29: a request served from the cache gets a result that was computed through
\* the endpoint it would have used itself: the request that wrote the entry it
\* hit had the same endpoint.
C29_SameEndpoint ==
  \A r, q \in Requests :
    (/\ pc[r] = "done" /\ cachedResult[r] = "hit"
     /\ Wrote(q) /\ cacheKey[q] = cacheKey[r])
    => rpcEndpoint(options[q]) = rpcEndpoint(options[r])

\* the sum of the balances of the Map
RECURSIVE SumBalances(_)
SumBalances(m) == IF m = <<>> THEN 0 ELSE Head(m).balance + SumBalances(Tail(m))

\* the logs before the k-th
Before(logs, k) == SubSeq(logs, 1, k - 1)

\* C30: after the replay the balances of the map add up to the total value
\* sent from the zero address minus the total value sent to it, and a log whose
\* sender is its receiver (not the zero address) leaves the balance of that
\* address as the logs before it left it.
C30_Conservation ==
  hPc = "done" =>
    /\ SumBalances(balances) = SumFrom(hLogs, ZERO_ADDRESS) - SumTo(hLogs, ZERO_ADDRESS)
    /\ \A k \in 1..Len(hLogs) :
         (hLogs[k].from = hLogs[k].to /\ hLogs[k].from # ZERO_ADDRESS) =>
           /\ MapGet(ReplayLogs(Before(hLogs, k + 1)), hLogs[k].from)
                = SumTo(Before(hLogs, k), hLogs[k].from)
                    - SumFrom(Before(hLogs, k), hLogs[k].from)
           /\ SumBalances(ReplayLogs(Before(hLogs, k + 1)))
                = SumBalances(ReplayLogs(Before(hLogs, k)))

\* a mint to address 1 and then a transfer from address 1 to itself: address 1
\* holds what was minted
C30_Witness ==
  /\ hPc = "done"
  /\ hLogs = <<TransferLog(ZERO_ADDRESS, 1, 100), TransferLog(1, 1, 40)>>
  /\ balances = <<[address |-> 1, balance |-> 100]>>

(* Claims C31 to C36 *)

\* C31: whatever Transfer logs the node returns, and whether or not the holder
\* queries succeed, top_holders holds no zero address and no address twice,
\* and only addresses that occur in the logs.
C31_HoldersDistinct ==
  /\ \A i \in 1..Len(topHolders) :
       /\ topHolders[i] # ZERO_ADDRESS
       /\ topHolders[i] \in Touched(hLogs)
  /\ \A i, j \in 1..Len(topHolders) : topHolders[i] = topHolders[j] => i = j

\* a burn: the zero address received tokens, address 1 occurs in both logs,
\* and address 1 is the one holder
C31_Witness ==
  /\ hPc = "done"
  /\ hLogs = <<TransferLog(ZERO_ADDRESS, 1, 100), TransferLog(1, ZERO_ADDRESS, 40)>>
  /\ topHolders = <<1>>

\* C32: a request that aborts (no endpoint, or a failure caught by the outer
\* catch) never reached the cache and the step in which it aborts leaves the
\* store as it is; an entry appears or changes in the store only in the step in
\* which a request returns its result, under the key of that request and with
\* the value that request returns.
C32_AbortWritesNothing ==
  /\ [](\A r \in Requests :
          pc[r] = "error" =>
            ret[r].kind = "error" /\ cacheKey[r] = NoKey /\ cachedResult[r] = "none")
  /\ [][(\E r \in Requests : pc[r] # "error" /\ pc'[r] = "error") => store' = store]_vars
  /\ [][\A k \in DOMAIN store' :
          (k \notin DOMAIN store \/ store'[k] # store[k]) =>
            \E r \in Requests :
              /\ pc[r] = "write" /\ pc'[r] = "done" /\ cacheKey[r] = k
              /\ ret'[r].kind = "value" /\ store'[k].data = ret'[r].value]_vars

\* one request wrote its pools to the cache, the other aborted, and the store
\* holds the entry of the first
C32_Witness ==
  \E r, q \in Requests :
    /\ pc[r] = "error" /\ ret[r].at >= ret[q].at
    /\ Wrote(q) /\ ret[q].value # <<>>
    /\ DOMAIN store = {cacheKey[q]}
    /\ store[cacheKey[q]].data = ret[q].value

\* request q ran the whole pipeline: every factory was scanned, the collected
\* records were deduplicated, every pool was enriched, and the list of the
\* enriched pools is what it returned
CompleteRun(q) ==
  /\ Wrote(q) /\ ret[q].kind = "value" /\ ret[q].value = enrichedPairs[q]
  /\ Len(scanned[q]) = Len(options[q].factories)
  /\ uniquePairs[q] = deduplicatePairs(allPairs[q])
  /\ Len(enrichedPairs[q]) = Len(uniquePairs[q])
  /\ \A i \in 1..Len(enrichedPairs[q]) :
       /\ enrichedPairs[q][i].pair_address = uniquePairs[q][i].pair_address
       /\ {"init_liquidity", "top_holders"} \subseteq DOMAIN enrichedPairs[q][i]

\* C33: however the steps of two requests, the sweep and the clock interleave,
\* every value in the cache under a key is the list one finished run for that
\* key returned, and every request that returned has returned such a cached
\* list or the list of its own finished run.
C33_CachedComplete ==
  /\ \A k \in DOMAIN store :
       \E q \in Requests : CompleteRun(q) /\ cacheKey[q] = k /\ store[k].data = ret[q].value
  /\ \A r \in Requests :
       pc[r] = "done" =>
         IF cachedResult[r] = "hit"
         THEN \E q \in Requests \ {r} :
                CompleteRun(q) /\ cacheKey[q] = cacheKey[r] /\ ret[r].value = ret[q].value
         ELSE CompleteRun(r)

\* two requests for the same key both missed, ran side by side and both wrote:
\* the cache holds the list of one of them
C33_Witness ==
  \E r, q \in Requests :
    /\ r # q /\ Wrote(r) /\ Wrote(q) /\ cacheKey[r] = cacheKey[q]
    /\ ret[r].at <= ret[q].at /\ now - ret[r].at <= CACHE_TTL_MS
    /\ ret[q].value # <<>>
    /\ cacheKey[q] \in DOMAIN store /\ store[cacheKey[q]].data = ret[q].value

\* C34: the range of a request is [head - blocksToScan, head] for the head its
\* getBlockNumber returned, with fromBlock <= toBlock when windowMinutes >= 1;
\* the two ends are the range in its cache key and the fromBlock and toBlock of
\* every creation-log query it makes, for every factory and both event shapes.
C34_RangeConsistent ==
  /\ [][\A r \in Requests : Lookup(r) => currentBlock'[r] = head]_vars
  /\ [](\A r \in Requests :
          cachedResult[r] # "none" =>
            /\ currentBlock[r] - fromBlock[r]
                 = estimateBlocksForTimeWindow(options[r].chain,
                                               options[r].windowMinutes).value
            /\ options[r].windowMinutes >= 1 => fromBlock[r] <= currentBlock[r]
            /\ cacheKey[r] = generateKey(options[r].chain, options[r].factories,
                                         fromBlock[r], currentBlock[r])
            /\ \A i \in 1..Len(scanned[r]) :
                 scanned[r][i].valid =>
                   scanned[r][i].range = <<fromBlock[r], currentBlock[r]>>)

\* a request scanned both factories over the 30 blocks up to the head it had
\* read, while the chain had grown by a block before its first query
C34_Witness ==
  \E r \in Requests :
    /\ Wrote(r) /\ Len(scanned[r]) = 2
    /\ currentBlock[r] = InitialHead /\ fromBlock[r] = InitialHead - 30
    /\ head = InitialHead + 1
    /\ \E q \in Requests \ {r} : pc[q] = "scan" /\ currentBlock[q] = head /\ scanned[q] = <<>>
    /\ \A i \in 1..2 : scanned[r][i].range = <<InitialHead - 30, InitialHead>>

\* the entries of the keys other than key are the same before and after the step
OthersKept(key) ==
  /\ DOMAIN store' \ {key} = DOMAIN store \ {key}
  /\ \A j \in DOMAIN store \ {key} : store'[j] = store[j]

\* C35: cleanup() removes the entries whose age exceeds their ttl when it runs
\* and no other, and leaves the entries it keeps as they are; get(k) on an
\* entry that has not expired leaves the whole store as it is; get, set and
\* delete on k leave the entry of every other key as it is.
C35_CacheFrames ==
  [][/\ CacheCleanupCall =>
          /\ DOMAIN store' = {k \in DOMAIN store : now - store[k].timestamp <= store[k].ttl}
          /\ \A k \in DOMAIN store' : store'[k] = store[k]
     /\ \A key \in CacheKeys :
          /\ CacheGetCall(key) =>
               /\ OthersKept(key)
               /\ (key \in DOMAIN store /\ now - store[key].timestamp <= store[key].ttl)
                    => store' = store
          /\ CacheDeleteCall(key) => OthersKept(key) /\ key \notin DOMAIN store'
          /\ \A value \in CacheValues, ttlMs \in CacheTtls :
               CacheSetCall(key, value, ttlMs) =>
                 OthersKept(key) /\ key \in DOMAIN store' /\ store'[key].data = value]_vars

\* a sweep has just removed the expired entry of one key and kept the entry of
\* the other, which is as old as its ttl and holds its pools
C35_Witness ==
  \E k1, k2 \in CacheKeys :
    /\ k1 # k2
    /\ cCall = [op |-> "cleanup", key |-> NoKey, removed |-> {k1}]
    /\ DOMAIN store = {k2}
    /\ now - store[k2].timestamp = store[k2].ttl
    /\ store[k2].data # <<>>

\* the pools the chain of the model holds: no request discovers more
MostPools == Len(AllCreations)

\* an upper bound of the steps request r still takes: the factories left to
\* scan, the pools left to enrich, the cache write
StepsLeft(r) ==
  CASE pc[r] = "idle" -> MaxFactories + MostPools + 4
    [] pc[r] = "getBlockNumber" -> Len(options[r].factories) + MostPools + 3
    [] pc[r] = "scan" -> (Len(options[r].factories) - fIdx[r] + 1) + MostPools + 2
    [] pc[r] = "enrich" -> (Len(uniquePairs[r]) - Len(enrichedPairs[r])) + 1
    [] pc[r] = "write" -> 1
    [] OTHER -> 0

\* a step of request r
StepOf(r) ==
  \/ pc'[r] # pc[r] \/ fIdx'[r] # fIdx[r]
  \/ scanned'[r] # scanned[r] \/ enrichedPairs'[r] # enrichedPairs[r]

\* C36: when the node answers every call in the end, a request that was
\* called returns its pools or throws its error; every step of a request
\* lowers a bound made of the factories left to scan and the pools left to
\* enrich, so no loop of the request runs forever.
C36_Terminates ==
  /\ \A r \in Requests :
       (pc[r] \in {"getBlockNumber", "scan", "enrich", "write"})
         ~> (pc[r] \in {"done", "error"} /\ ret[r].kind \in {"value", "error"})
  /\ [][\A r \in Requests : StepOf(r) => StepsLeft(r)' < StepsLeft(r)]_vars
  /\ [](\A r \in Requests : StepsLeft(r) >= 0)

\* a request over three factory strings, one of them no address, returned its
\* pools after a query had been rejected and a log had been skipped
C36_Witness ==
  \E r \in Requests :
    /\ Wrote(r) /\ ret[r].kind = "value" /\ ret[r].value # <<>>
    /\ Len(scanned[r]) = 3
    /\ \E i, j, k \in 1..3 :
         /\ ~scanned[r][i].valid
         /\ scanned[r][j].valid /\ scanned[r][j].v3 = Rejected
         /\ scanned[r][k].bad # {}


====
